---- MODULE Spec2Model ----
(***************************************************************************)
(* Zero-dimensional redox flow battery simulator (rfbzero): the cell       *)
(* model (ZeroDModel), the per-half-cycle controllers                      *)
(* (ConstantCurrentCycleMode, ConstantVoltageCycleMode), the recorder      *)
(* (CyclingProtocolResults) and the three protocols' run loops.            *)
(*                                                                         *)
(* Numbers.  The program computes in floating point; the model computes    *)
(* in integers of fixed units:                                             *)
(*   concentration  one quantum = time_increment * (one current unit)      *)
(*                  / (F * cls_volume), so one current unit moves one      *)
(*                  quantum per step;                                      *)
(*   charge         OneCoulomb charge units make the 1.0 C of              *)
(*                  check_capacity; a step at current I adds               *)
(*                  |I| * TimeIncrement charge units;                      *)
(*   voltage        one unit = NERNST_CONST * ln(2) / LogScale, so that    *)
(*                  NERNST_CONST * log(x) is LogScale * log2(x).           *)
(* log and the square root are fixed-point approximations (NernstLog,      *)
(* ISqrt); their domain errors (log of a non-positive number, division by  *)
(* zero) are modelled exactly, as the exceptions Python raises.            *)
(***************************************************************************)
EXTENDS Integers, Sequences, FiniteSets, TLC

\* ------------------------------------------------------------- bounds
\* Start concentrations range over 0..MaxConc quanta.
MaxConc == 4
\* Demanded currents range over 1..MaxCurrent (and their negatives).
MaxCurrent == 2
\* The recorder's size = int(duration / time_increment) ranges over 0..MaxSize.
MaxSize == 7
\* Fixed-point resolution of the logarithm: voltage units per doubling.
LogScale == 4

\* -------------------------------------------------- program constants
\* time_increment, in model time units.
TimeIncrement == 1
\* F * cls_volume and F * ncls_volume, in model units (see Numbers).
FaradayClsVolume == 1
FaradayNclsVolume == 1
\* const_i_ex * k_0 * 0.001 of _exchange_current, in current units per quantum.
ExchangeConst == 1
\* F * k_mt * geometric_area * 0.001 of _limiting_current.
LimitingConst == 2
\* The 1.0 coulomb of check_capacity, in charge units.
OneCoulomb == 3
\* The 2 of "half_cycles > 2" in check_capacity.
HalfCycleFloor == 2

\* ------------------------------------------------------------ numbers
Abs(x) == IF x < 0 THEN -x ELSE x

\* Python's min(a, b).
Min(a, b) == IF a <= b THEN a ELSE b

Sign(x) == IF x > 0 THEN 1 ELSE IF x < 0 THEN -1 ELSE 0

\* x ** 0.5 for x >= 0, rounded down to the integer grid (written 0 for a
\* negative x, whose root is not a real number).
ISqrt(n) ==
    IF n < 0 THEN 0
    ELSE CHOOSE k \in 0..n : k * k <= n /\ (k + 1) * (k + 1) > n

RECURSIVE LogUp(_, _)
\* LogScale * log2(num / den) for num >= den > 0: exact at the powers of two,
\* linear between them (log2(num / den) = 1 + log2(num / (2 * den))).
LogUp(num, den) ==
    IF num < 2 * den THEN (LogScale * (num - den)) \div den
    ELSE LogScale + LogUp(num, 2 * den)

\* NERNST_CONST * log(num / den) for num > 0 and den > 0, in voltage units.
\* log(1/x) = -log(x) is kept exact.
NernstLog(num, den) == IF num >= den THEN LogUp(num, den) ELSE -LogUp(den, num)

\* The outcome of a computation that may raise: err is "none" or the name of
\* the Python exception, val the value when none was raised.
Ok(v) == [err |-> "none", val |-> v]

Raise(e) == [err |-> e, val |-> 0]

\* F(v) with v evaluated once: a local of the code, assigned once and then read.
Bind(v, F(_)) == CHOOSE y \in {F(x) : x \in {v}} : TRUE

\* ------------------------------------------------- ZeroDModel (the cell)
\* The four concentrations of a cell, as a tuple-like record.
Conc(cm) == [c_ox_cls |-> cm.c_ox_cls, c_red_cls |-> cm.c_red_cls,
             c_ox_ncls |-> cm.c_ox_ncls, c_red_ncls |-> cm.c_red_ncls]

\* ZeroDModel.__init__: the object's fields (the parameters fixed in this
\* model are the program constants above).  prev_* is the snapshot a coulomb
\* count takes, delta_ox and delta_red what the last count returned.
ZeroDModel(cls_start_c_ox, cls_start_c_red, ncls_start_c_ox, ncls_start_c_red, init_ocv, resistance, cls_negolyte) ==
    [c_ox_cls |-> cls_start_c_ox, c_red_cls |-> cls_start_c_red,
     c_ox_ncls |-> ncls_start_c_ox, c_red_ncls |-> ncls_start_c_red,
     prev_c_ox_cls |-> cls_start_c_ox, prev_c_red_cls |-> cls_start_c_red,
     prev_c_ox_ncls |-> ncls_start_c_ox, prev_c_red_ncls |-> ncls_start_c_red,
     delta_ox |-> 0, delta_red |-> 0,
     cls_negolyte |-> cls_negolyte, init_ocv |-> init_ocv, resistance |-> resistance]

\* A faulty negative_concentrations: only the CLS is looked at.
negative_cls_concentrations(cm) == cm.c_ox_cls < 0 \/ cm.c_red_cls < 0

\* ZeroDModel.negative_concentrations
negative_concentrations(cm) ==
    \/ cm.c_ox_cls < 0
    \/ cm.c_red_cls < 0
    \/ cm.c_ox_ncls < 0
    \/ cm.c_red_ncls < 0

\* ZeroDModel._exchange_current with alpha_cls = alpha_ncls = 0.5 (the defaults):
\* c_red ** 0.5 * c_ox ** 0.5.
exchange_current(cm) ==
    [i_0_cls  |-> ExchangeConst * ISqrt(cm.c_red_cls * cm.c_ox_cls),
     i_0_ncls |-> ExchangeConst * ISqrt(cm.c_red_ncls * cm.c_ox_ncls)]

\* ZeroDModel._limiting_current
limiting_current(c_lim) == LimitingConst * c_lim

\* A faulty limiting_concentration: the species are chosen from the direction
\* alone, as if the CLS were always the negolyte.
limiting_concentration_by_direction(cm, charge) ==
    IF charge
    THEN [i_lim_cls  |-> limiting_current(cm.c_ox_cls),
          i_lim_ncls |-> limiting_current(cm.c_red_ncls)]
    ELSE [i_lim_cls  |-> limiting_current(cm.c_red_cls),
          i_lim_ncls |-> limiting_current(cm.c_ox_ncls)]

\* ZeroDModel.limiting_concentration
limiting_concentration(cm, charge) ==
    IF (cm.cls_negolyte /\ charge) \/ (~cm.cls_negolyte /\ ~charge)
    THEN [i_lim_cls  |-> limiting_current(cm.c_ox_cls),
          i_lim_ncls |-> limiting_current(cm.c_red_ncls)]
    ELSE [i_lim_cls  |-> limiting_current(cm.c_red_cls),
          i_lim_ncls |-> limiting_current(cm.c_ox_ncls)]

\* log(z + (z**2 + 1)**0.5) with z = |current| / (2 * i_0), times NERNST_CONST:
\* z + sqrt(z^2 + 1) = (|I| + sqrt(I^2 + (2 i_0)^2)) / (2 i_0).
AsinhTerm(current, i_0) ==
    NernstLog(Abs(current) + ISqrt(current * current + 4 * i_0 * i_0), 2 * i_0)

\* ZeroDModel._activation_overpotential: the divisions by 2 * i_0 raise when an
\* exchange current is zero.
activation_overpotential(current, i_0_cls, i_0_ncls) ==
    IF i_0_cls = 0 \/ i_0_ncls = 0 THEN Raise("ZeroDivisionError")
    ELSE Ok(AsinhTerm(current, i_0_ncls) + AsinhTerm(current, i_0_cls))

\* ZeroDModel._mass_transport_overpotential.  With a = c_tot_cls * i,
\* b = the first denominator, c = c_tot_ncls * i, d = the second denominator,
\* the logarithm's argument (1 - a/b) * (1 - c/d) is ((b - a) * (d - c)) / (b * d):
\* the divisions raise when b or d is zero, the logarithm when its argument
\* is not positive.
mass_transport_overpotential(cm, charge, current, i_lim_cls, i_lim_ncls) ==
    LET i == Abs(current)
        first == (cm.cls_negolyte /\ charge) \/ (~cm.cls_negolyte /\ ~charge)
    IN  IF negative_concentrations(cm) THEN Raise("ValueError")
        ELSE Bind([a |-> (cm.c_red_cls + cm.c_ox_cls) * i,
                   b |-> IF first THEN cm.c_red_cls * i_lim_cls + cm.c_ox_cls * i
                                  ELSE cm.c_ox_cls * i_lim_cls + cm.c_red_cls * i,
                   c |-> (cm.c_red_ncls + cm.c_ox_ncls) * i,
                   d |-> IF first THEN cm.c_ox_ncls * i_lim_ncls + cm.c_red_ncls * i
                                  ELSE cm.c_red_ncls * i_lim_ncls + cm.c_ox_ncls * i],
                  LAMBDA t :
                      IF t.b = 0 \/ t.d = 0 THEN Raise("ZeroDivisionError")
                      ELSE IF (t.b - t.a) * (t.d - t.c) * Sign(t.b * t.d) <= 0
                      THEN Raise("ValueError")
                      ELSE Ok(NernstLog(Abs((t.b - t.a) * (t.d - t.c)), Abs(t.b * t.d))))

\* ZeroDModel.total_overpotential: [err, n_loss, n_act, n_mt].  A negative
\* concentration makes _exchange_current complex (x ** 0.5 of a negative x) and
\* the logarithm of _activation_overpotential reject it.
total_overpotential(cm, current, charge, i_lim_cls, i_lim_ncls) ==
    IF negative_concentrations(cm)
    THEN [err |-> "TypeError", n_loss |-> 0, n_act |-> 0, n_mt |-> 0]
    ELSE Bind(activation_overpotential(current, exchange_current(cm).i_0_cls,
                                       exchange_current(cm).i_0_ncls),
              LAMBDA act :
                  IF act.err # "none"
                  THEN [err |-> act.err, n_loss |-> 0, n_act |-> 0, n_mt |-> 0]
                  ELSE Bind(mass_transport_overpotential(cm, charge, current,
                                                         i_lim_cls, i_lim_ncls),
                            LAMBDA mt :
                                IF mt.err # "none"
                                THEN [err |-> mt.err, n_loss |-> 0, n_act |-> 0, n_mt |-> 0]
                                ELSE [err |-> "none",
                                      n_loss |-> Abs(current) * cm.resistance
                                                 + act.val + mt.val,
                                      n_act |-> act.val, n_mt |-> mt.val]))

\* ZeroDModel.open_circuit_voltage: the guard, then log(c_red_cls / c_ox_cls)
\* and log(c_ox_ncls / c_red_ncls), each a division and then a logarithm.
open_circuit_voltage(cm) ==
    IF negative_concentrations(cm) THEN Raise("ValueError")
    ELSE IF cm.c_ox_cls = 0 THEN Raise("ZeroDivisionError")
    ELSE IF cm.c_red_cls = 0 THEN Raise("ValueError")
    ELSE IF cm.c_red_ncls = 0 THEN Raise("ZeroDivisionError")
    ELSE IF cm.c_ox_ncls = 0 THEN Raise("ValueError")
    ELSE Ok(cm.init_ocv + (IF cm.cls_negolyte THEN 1 ELSE -1)
                          * (NernstLog(cm.c_red_cls, cm.c_ox_cls)
                             + NernstLog(cm.c_ox_ncls, cm.c_red_ncls)))

\* ZeroDModel.cell_voltage
cell_voltage(ocv, losses, charge) == IF charge THEN ocv + losses ELSE ocv - losses

\* ------------------------------------ degradation and crossover mechanisms
\* The concentration a mechanism removes in one time step from a species at
\* concentration c: half of it, rounded towards zero (a first-order decay with
\* a large rate constant).  A negative concentration stays negative.
Decay(c) == IF c >= 0 THEN c \div 2 ELSE -((-c) \div 2)

\* DegradationMechanism.degrade(c_ox, c_red, time_increment): "none" is no
\* mechanism (None), "red" a chemical degradation of the reduced species.
degrade(mechanism, c_ox, c_red) ==
    IF mechanism = "red" THEN [c_ox |-> c_ox, c_red |-> c_red - Decay(c_red)]
    ELSE [c_ox |-> c_ox, c_red |-> c_red]

\* Crossover.crossover(...): each species diffuses from the richer reservoir to
\* the poorer one, a quarter of the difference per step (rounded towards zero);
\* delta_ox and delta_red are the amounts that left the CLS.
Flux(c_cls, c_ncls) ==
    IF c_cls >= c_ncls THEN (c_cls - c_ncls) \div 4 ELSE -((c_ncls - c_cls) \div 4)

crossover(c_ox_cls, c_red_cls, c_ox_ncls, c_red_ncls) ==
    LET d_ox == Flux(c_ox_cls, c_ox_ncls)
        d_red == Flux(c_red_cls, c_red_ncls)
    IN  [c_ox_cls |-> c_ox_cls - d_ox, c_red_cls |-> c_red_cls - d_red,
         c_ox_ncls |-> c_ox_ncls + d_ox, c_red_ncls |-> c_red_ncls + d_red,
         delta_ox |-> d_ox, delta_red |-> d_red]

\* ------------------------------------------------ ZeroDModel.coulomb_counter
\* A faulty Faradaic transfer: the CLS gains reduced species without losing
\* oxidized species.
faradaic_unbalanced(cm, current) ==
    [c_ox_cls |-> cm.c_ox_cls,
     c_red_cls |-> cm.c_red_cls + TimeIncrement * current,
     c_ox_ncls |-> cm.c_ox_ncls + TimeIncrement * current,
     c_red_ncls |-> cm.c_red_ncls - TimeIncrement * current]

\* The Faradaic transfer of coulomb_counter: the four concentrations after
\* "Coulomb counting based solely on current".
faradaic(cm, current) ==
    LET direction == IF cm.cls_negolyte THEN 1 ELSE -1
        delta_cls == ((TimeIncrement * current) \div FaradayClsVolume) * direction
        delta_ncls == ((TimeIncrement * current) \div FaradayNclsVolume) * direction
    IN  [c_ox_cls |-> cm.c_ox_cls - delta_cls, c_red_cls |-> cm.c_red_cls + delta_cls,
         c_ox_ncls |-> cm.c_ox_ncls + delta_ncls, c_red_ncls |-> cm.c_red_ncls - delta_ncls]

\* A faulty coulomb_counter: the crossover acts on the concentrations the
\* Faradaic transfer produced and the degradation mechanisms come last.
counted_crossover_first(cm, current, cls_degradation, ncls_degradation, crossover_params) ==
    Bind(faradaic(cm, current),
         LAMBDA f :
             LET x == IF crossover_params = "none"
                      THEN [c_ox_cls |-> f.c_ox_cls, c_red_cls |-> f.c_red_cls,
                            c_ox_ncls |-> f.c_ox_ncls, c_red_ncls |-> f.c_red_ncls,
                            delta_ox |-> 0, delta_red |-> 0]
                      ELSE crossover(f.c_ox_cls, f.c_red_cls, f.c_ox_ncls, f.c_red_ncls)
                 cls == degrade(cls_degradation, x.c_ox_cls, x.c_red_cls)
                 ncls == degrade(ncls_degradation, x.c_ox_ncls, x.c_red_ncls)
             IN  [c_ox_cls |-> cls.c_ox, c_red_cls |-> cls.c_red,
                  c_ox_ncls |-> ncls.c_ox, c_red_ncls |-> ncls.c_red,
                  delta_ox |-> x.delta_ox, delta_red |-> x.delta_red])

\* The concentrations coulomb_counter computes and the deltas it returns:
\* Faradaic transfer, CLS degradation, NCLS degradation, crossover, in this order.
counted(cm, current, cls_degradation, ncls_degradation, crossover_params) ==
    Bind(faradaic(cm, current),
         LAMBDA f :
             LET cls == degrade(cls_degradation, f.c_ox_cls, f.c_red_cls)
                 ncls == degrade(ncls_degradation, f.c_ox_ncls, f.c_red_ncls)
             IN  IF crossover_params = "none"
                 THEN [c_ox_cls |-> cls.c_ox, c_red_cls |-> cls.c_red,
                       c_ox_ncls |-> ncls.c_ox, c_red_ncls |-> ncls.c_red,
                       delta_ox |-> 0, delta_red |-> 0]
                 ELSE crossover(cls.c_ox, cls.c_red, ncls.c_ox, ncls.c_red))

\* The snapshot the model keeps of the concentrations a coulomb count replaces.
snapshot(cm) ==
    [cm EXCEPT !.prev_c_ox_cls = cm.c_ox_cls, !.prev_c_red_cls = cm.c_red_cls,
               !.prev_c_ox_ncls = cm.c_ox_ncls, !.prev_c_red_ncls = cm.c_red_ncls]

\* ZeroDModel.coulomb_counter: the cell after the call ("update concentrations
\* to self"), with the pre-step snapshot taken.
coulomb_counter(cm, current, cls_degradation, ncls_degradation, crossover_params) ==
    Bind(counted(cm, current, cls_degradation, ncls_degradation, crossover_params),
         LAMBDA n :
             [snapshot(cm) EXCEPT !.c_ox_cls = n.c_ox_cls, !.c_red_cls = n.c_red_cls,
                                  !.c_ox_ncls = n.c_ox_ncls, !.c_red_ncls = n.c_red_ncls,
                                  !.delta_ox = n.delta_ox, !.delta_red = n.delta_red])

\* ZeroDModel.revert_concentrations: restore the snapshot.
revert_concentrations(cm) ==
    [cm EXCEPT !.c_ox_cls = cm.prev_c_ox_cls, !.c_red_cls = cm.prev_c_red_cls,
               !.c_ox_ncls = cm.prev_c_ox_ncls, !.c_red_ncls = cm.prev_c_red_ncls]

\* --------------------------------------------------- CyclingProtocolResults
\* CyclingProtocolResults.__init__: the arrays are pre-sized with defaults;
\* size = int(duration / time_increment).
CyclingProtocolResults(size, charge_first) ==
    [size |-> size, charge_first |-> charge_first, step |-> 0,
     step_time |-> [k \in 1..size |-> 0],
     step_is_charge |-> [k \in 1..size |-> FALSE],
     current |-> [k \in 1..size |-> 0],
     cell_v |-> [k \in 1..size |-> 0],
     ocv |-> [k \in 1..size |-> 0],
     c_ox_cls |-> [k \in 1..size |-> 0],
     c_red_cls |-> [k \in 1..size |-> 0],
     c_ox_ncls |-> [k \in 1..size |-> 0],
     c_red_ncls |-> [k \in 1..size |-> 0],
     half_cycles |-> 0, capacity |-> 0,
     half_cycle_capacity |-> << >>, half_cycle_time |-> << >>,
     half_cycle_is_charge |-> << >>,
     charge_cycle_capacity |-> << >>, charge_cycle_time |-> << >>,
     discharge_cycle_capacity |-> << >>, discharge_cycle_time |-> << >>]

\* A faulty record_step: the capacity grows by the signed current, so a
\* discharge step lowers it.
record_step_signed(res, cm, charge, current, cell_v, ocv) ==
    LET r == [res EXCEPT !.capacity = res.capacity + current * TimeIncrement]
        k == res.step + 1
    IN  IF res.step >= res.size THEN [err |-> "IndexError", results |-> r]
        ELSE [err |-> "none",
              results |-> [r EXCEPT !.current[k] = current, !.cell_v[k] = cell_v,
                                    !.ocv[k] = ocv, !.step_is_charge[k] = charge,
                                    !.c_ox_cls[k] = cm.c_ox_cls,
                                    !.c_red_cls[k] = cm.c_red_cls,
                                    !.c_ox_ncls[k] = cm.c_ox_ncls,
                                    !.c_red_ncls[k] = cm.c_red_ncls,
                                    !.step_time[k] = TimeIncrement * (res.step + 1),
                                    !.step = res.step + 1]]

\* CyclingProtocolResults.record_step: the capacity is updated first; the first
\* array write, self.current[self.step] = current, raises IndexError when the
\* step index has reached the arrays' size.  Python's index self.step is the
\* model's index step + 1.
record_step(res, cm, charge, current, cell_v, ocv) ==
    LET r == [res EXCEPT !.capacity = res.capacity + Abs(current) * TimeIncrement]
        k == res.step + 1
    IN  IF res.step >= res.size THEN [err |-> "IndexError", results |-> r]
        ELSE [err |-> "none",
              results |-> [r EXCEPT !.current[k] = current, !.cell_v[k] = cell_v,
                                    !.ocv[k] = ocv, !.step_is_charge[k] = charge,
                                    !.c_ox_cls[k] = cm.c_ox_cls,
                                    !.c_red_cls[k] = cm.c_red_cls,
                                    !.c_ox_ncls[k] = cm.c_ox_ncls,
                                    !.c_red_ncls[k] = cm.c_red_ncls,
                                    !.step_time[k] = TimeIncrement * (res.step + 1),
                                    !.step = res.step + 1]]

\* A faulty record_half_cycle: a discharge half-cycle is counted but not filed
\* in the discharge lists.
record_half_cycle_charge_only(res, charge) ==
    LET time == res.step * TimeIncrement
        r == [res EXCEPT !.half_cycle_capacity = Append(res.half_cycle_capacity, res.capacity),
                         !.half_cycle_time = Append(res.half_cycle_time, time),
                         !.half_cycle_is_charge = Append(res.half_cycle_is_charge, charge),
                         !.half_cycles = res.half_cycles + 1,
                         !.capacity = 0]
    IN  IF charge
        THEN [r EXCEPT !.charge_cycle_capacity = Append(res.charge_cycle_capacity, res.capacity),
                       !.charge_cycle_time = Append(res.charge_cycle_time, time)]
        ELSE r

\* A faulty record_half_cycle: the half-cycle is filed under the direction of
\* the next one.
record_half_cycle_as_next(res, charge) ==
    LET time == res.step * TimeIncrement
        r == [res EXCEPT !.half_cycle_capacity = Append(res.half_cycle_capacity, res.capacity),
                         !.half_cycle_time = Append(res.half_cycle_time, time),
                         !.half_cycle_is_charge = Append(res.half_cycle_is_charge, ~charge),
                         !.half_cycles = res.half_cycles + 1,
                         !.capacity = 0]
    IN  IF ~charge
        THEN [r EXCEPT !.charge_cycle_capacity = Append(res.charge_cycle_capacity, res.capacity),
                       !.charge_cycle_time = Append(res.charge_cycle_time, time)]
        ELSE [r EXCEPT !.discharge_cycle_capacity = Append(res.discharge_cycle_capacity, res.capacity),
                       !.discharge_cycle_time = Append(res.discharge_cycle_time, time)]

\* CyclingProtocolResults.record_half_cycle
record_half_cycle(res, charge) ==
    LET time == res.step * TimeIncrement
        r == [res EXCEPT !.half_cycle_capacity = Append(res.half_cycle_capacity, res.capacity),
                         !.half_cycle_time = Append(res.half_cycle_time, time),
                         !.half_cycle_is_charge = Append(res.half_cycle_is_charge, charge),
                         !.half_cycles = res.half_cycles + 1,
                         !.capacity = 0]
    IN  IF charge
        THEN [r EXCEPT !.charge_cycle_capacity = Append(res.charge_cycle_capacity, res.capacity),
                       !.charge_cycle_time = Append(res.charge_cycle_time, time)]
        ELSE [r EXCEPT !.discharge_cycle_capacity = Append(res.discharge_cycle_capacity, res.capacity),
                       !.discharge_cycle_time = Append(res.discharge_cycle_time, time)]

\* ------------------------------------------------------------- CycleStatus
NORMAL == "NORMAL"

NEGATIVE_CONCENTRATIONS == "NEGATIVE_CONCENTRATIONS"

VOLTAGE_LIMIT_REACHED == "VOLTAGE_LIMIT_REACHED"

CURRENT_CUTOFF_REACHED == "CURRENT_CUTOFF_REACHED"

LIMITING_CURRENT_REACHED == "LIMITING_CURRENT_REACHED"

LOW_CAPACITY == "LOW_CAPACITY"

TIME_DURATION_REACHED == "TIME_DURATION_REACHED"

CycleStatus ==
    {NORMAL, NEGATIVE_CONCENTRATIONS, VOLTAGE_LIMIT_REACHED, CURRENT_CUTOFF_REACHED,
     LIMITING_CURRENT_REACHED, LOW_CAPACITY, TIME_DURATION_REACHED}

\* ---------------------------------------------------------------- CycleMode
\* A faulty check_capacity: two completed half-cycles are enough.
check_capacity_from_two(res, cycle_status) ==
    IF res.capacity < OneCoulomb /\ res.half_cycles >= 2
    THEN LOW_CAPACITY
    ELSE cycle_status

\* CycleMode.check_capacity
check_capacity(res, cycle_status) ==
    IF res.capacity < OneCoulomb /\ res.half_cycles > HalfCycleFloor
    THEN LOW_CAPACITY
    ELSE cycle_status

\* CycleMode.check_time
check_time(res, cycle_status) ==
    IF cycle_status # NORMAL THEN cycle_status
    ELSE IF res.step >= res.size THEN TIME_DURATION_REACHED
    ELSE NORMAL

\* CycleMode.__init__: limiting currents that are not given (None, written 0
\* here: "not current_lim_cls" is true of both) are computed from the present
\* concentrations and the mode's direction.
CycleModeLimits(cm, charge, current_lim_cls, current_lim_ncls) ==
    IF current_lim_cls = 0 \/ current_lim_ncls = 0
    THEN limiting_concentration(cm, charge)
    ELSE [i_lim_cls |-> current_lim_cls, i_lim_ncls |-> current_lim_ncls]

\* ConstantCurrentCycleMode.__init__
ConstantCurrentCycleMode(charge, cm, current, voltage_limit, voltage_limit_capacity_check) ==
    LET lim == CycleModeLimits(cm, charge, 0, 0)
    IN  [kind |-> "CC", charge |-> charge, current |-> current,
         voltage_limit |-> voltage_limit,
         voltage_limit_capacity_check |-> voltage_limit_capacity_check,
         current_cutoff |-> 0,
         current_lim_cls |-> lim.i_lim_cls, current_lim_ncls |-> lim.i_lim_ncls]

\* ConstantVoltageCycleMode.__init__
ConstantVoltageCycleMode(charge, cm, current_cutoff, voltage_limit, current_estimate, current_lim_cls, current_lim_ncls) ==
    LET lim == CycleModeLimits(cm, charge, current_lim_cls, current_lim_ncls)
    IN  [kind |-> "CV", charge |-> charge, current |-> current_estimate,
         voltage_limit |-> voltage_limit,
         voltage_limit_capacity_check |-> TRUE,
         current_cutoff |-> current_cutoff,
         current_lim_cls |-> lim.i_lim_cls, current_lim_ncls |-> lim.i_lim_ncls]

\* A faulty update_concentrations: the count is applied twice.
update_concentrations_twice(cm, mech, i) ==
    coulomb_counter(coulomb_counter(cm, i, mech.cls_degradation, mech.ncls_degradation,
                                    mech.crossover),
                    i, mech.cls_degradation, mech.ncls_degradation, mech.crossover)

\* The update_concentrations closure of _validate_protocol, applied to the cell.
update_concentrations(cm, mech, i) ==
    coulomb_counter(cm, i, mech.cls_degradation, mech.ncls_degradation, mech.crossover)

\* What one call of cycle_step leaves behind: the cell, the recorder, the mode,
\* the status the step reached before the capacity and time checks, the status
\* returned (when err = "none") or the exception raised, and whether the call
\* counted coulombs (after: the concentrations right after the count), reverted
\* the cell, or recorded a step.
Outcome(cm, res, mode, reached, status, err, did_count, after, reverted, recorded) ==
    [cell_model |-> cm, results |-> res, cycle_mode |-> mode, reached |-> reached,
     status |-> status, err |-> err, counted |-> did_count, after |-> after,
     reverted |-> reverted, recorded |-> recorded]

\* ConstantCurrentCycleMode.validate: [err, status].
cc_validate(mode, cm) ==
    IF Abs(mode.current) >= Min(mode.current_lim_cls, mode.current_lim_ncls)
    THEN [err |-> "none", status |-> LIMITING_CURRENT_REACHED]
    ELSE Bind(total_overpotential(cm, mode.current, mode.charge,
                                  mode.current_lim_cls, mode.current_lim_ncls),
              LAMBDA tot :
                  IF tot.err # "none" THEN [err |-> tot.err, status |-> NORMAL]
                  ELSE Bind(open_circuit_voltage(cm),
                            LAMBDA ocv :
                                IF ocv.err # "none" THEN [err |-> ocv.err, status |-> NORMAL]
                                ELSE IF Abs(cell_voltage(ocv.val, tot.n_loss, mode.charge))
                                        >= Abs(mode.voltage_limit)
                                THEN [err |-> "none", status |-> VOLTAGE_LIMIT_REACHED]
                                ELSE [err |-> "none", status |-> NORMAL]))

\* ConstantCurrentCycleMode.cycle_step, from the voltage-limit test on: cm1 is
\* the cell after the count, cell_v and ocv the voltages computed from it.
cc_record(mode, cm1, res, cell_v, ocv) ==
    LET reached == IF Abs(cell_v) >= Abs(mode.voltage_limit)
                   THEN VOLTAGE_LIMIT_REACHED
                   ELSE NORMAL
        limit_status == IF reached = VOLTAGE_LIMIT_REACHED /\ mode.voltage_limit_capacity_check
                        THEN check_capacity(res, VOLTAGE_LIMIT_REACHED)
                        ELSE reached
    IN  Bind(record_step(res, cm1, mode.charge, mode.current, cell_v, ocv),
             LAMBDA rec :
                 IF rec.err # "none"
                 THEN Outcome(cm1, rec.results, mode, reached, limit_status, rec.err,
                              TRUE, Conc(cm1), FALSE, FALSE)
                 ELSE Outcome(cm1, rec.results, mode, reached,
                              check_time(rec.results, limit_status), "none",
                              TRUE, Conc(cm1), FALSE, TRUE))

\* A faulty ConstantCurrentCycleMode.cycle_step: the step is recorded before
\* the count is found negative and reverted.
cc_cycle_step_recording_reverted(mode, cm, res, mech) ==
    Bind(update_concentrations(cm, mech, mode.current),
         LAMBDA cm1 :
             IF negative_concentrations(cm1)
             THEN Outcome(revert_concentrations(cm1),
                          record_step(res, cm1, mode.charge, mode.current, 0, 0).results,
                          mode, NEGATIVE_CONCENTRATIONS,
                          check_capacity(res, NEGATIVE_CONCENTRATIONS), "none",
                          TRUE, Conc(cm1), TRUE, FALSE)
             ELSE Bind(total_overpotential(cm1, mode.current, mode.charge,
                                           mode.current_lim_cls, mode.current_lim_ncls),
                       LAMBDA tot :
                           IF tot.err # "none"
                           THEN Outcome(cm1, res, mode, NORMAL, NORMAL, tot.err,
                                        TRUE, Conc(cm1), FALSE, FALSE)
                           ELSE Bind(open_circuit_voltage(cm1),
                                     LAMBDA ocv :
                                         IF ocv.err # "none"
                                         THEN Outcome(cm1, res, mode, NORMAL, NORMAL, ocv.err,
                                                      TRUE, Conc(cm1), FALSE, FALSE)
                                         ELSE cc_record(mode, cm1, res,
                                                  cell_voltage(ocv.val, tot.n_loss, mode.charge),
                                                  ocv.val))))

\* ConstantCurrentCycleMode.cycle_step
cc_cycle_step(mode, cm, res, mech) ==
    Bind(update_concentrations(cm, mech, mode.current),
         LAMBDA cm1 :
             IF negative_concentrations(cm1)
             THEN Outcome(revert_concentrations(cm1), res, mode, NEGATIVE_CONCENTRATIONS,
                          check_capacity(res, NEGATIVE_CONCENTRATIONS), "none",
                          TRUE, Conc(cm1), TRUE, FALSE)
             ELSE Bind(total_overpotential(cm1, mode.current, mode.charge,
                                           mode.current_lim_cls, mode.current_lim_ncls),
                       LAMBDA tot :
                           IF tot.err # "none"
                           THEN Outcome(cm1, res, mode, NORMAL, NORMAL, tot.err,
                                        TRUE, Conc(cm1), FALSE, FALSE)
                           ELSE Bind(open_circuit_voltage(cm1),
                                     LAMBDA ocv :
                                         IF ocv.err # "none"
                                         THEN Outcome(cm1, res, mode, NORMAL, NORMAL, ocv.err,
                                                      TRUE, Conc(cm1), FALSE, FALSE)
                                         ELSE cc_record(mode, cm1, res,
                                                  cell_voltage(ocv.val, tot.n_loss, mode.charge),
                                                  ocv.val))))

\* ------------------------------------------------ ConstantVoltageCycleMode
\* The residual function "solver" of _find_min_current: [err, val].
solver(mode, cm, ocv, current) ==
    Bind(total_overpotential(cm, current, mode.charge,
                             mode.current_lim_cls, mode.current_lim_ncls),
         LAMBDA tot :
             IF tot.err # "none" THEN Raise(tot.err)
             ELSE Ok(mode.voltage_limit - ocv
                     - (IF mode.charge THEN 1 ELSE -1) * tot.n_loss))

\* The currents the root finder may return from the guess it is given: the
\* residual depends on |current| only, so the search stays on the guess's side
\* of zero, below the smaller limiting current, where the residual is defined.
SolverGrid(mode, cm, ocv, guess) ==
    {i \in {Sign(guess) * m : m \in 0..Min(mode.current_lim_cls, mode.current_lim_ncls)} :
        solver(mode, cm, ocv, i).err = "none"} \cup {guess}

\* With the residuals' magnitudes r over the grid: i is at least as good a root
\* as j when its residual is smaller, then when it is nearer the guess, then
\* when its magnitude is smaller.
BetterRoot(r, guess, i, j) ==
    \/ r[i] < r[j]
    \/ r[i] = r[j] /\ Abs(i - guess) < Abs(j - guess)
    \/ r[i] = r[j] /\ Abs(i - guess) = Abs(j - guess) /\ Abs(i) <= Abs(j)

\* fsolve(solver, guess, xtol=1e-5): the residual is evaluated at the guess
\* first (an exception raised there propagates); the root found is the current
\* of the grid with the smallest residual.  The residual depends on |current|
\* only, so the mirror image of a root is a root as well: the iteration either
\* stays on the guess's side of zero or has crossed zero and returns the mirror
\* image.
fsolve(mode, cm, ocv, guess, crossed) ==
    Bind([i \in SolverGrid(mode, cm, ocv, guess) |-> solver(mode, cm, ocv, i)],
         LAMBDA residual :
             IF residual[guess].err # "none" THEN Raise(residual[guess].err)
             ELSE Bind([i \in DOMAIN residual |-> Abs(residual[i].val)],
                       LAMBDA r :
                           Ok((IF crossed THEN -1 ELSE 1)
                              * (CHOOSE i \in DOMAIN r :
                                    \A j \in DOMAIN r : BetterRoot(r, guess, i, j)))))

\* What the root finder may do in a cycle_step of the mode: a constant-current
\* mode does not call it.
SolverOutcomes(mode) == IF mode.kind = "CV" THEN BOOLEAN ELSE {FALSE}

\* The guess of cycle_step when there is no estimate:
\* 0.99 * min(current_lim_cls, current_lim_ncls), on the integer grid.
InitialGuess(mode) == (99 * Min(mode.current_lim_cls, mode.current_lim_ncls)) \div 100

\* self.current as cycle_step hands it to the solver: the estimate, or the
\* initial guess when there is none ("not self.current").
Guess(mode) == IF mode.current = 0 THEN InitialGuess(mode) ELSE mode.current

\* ConstantVoltageCycleMode._find_min_current with the guess of cycle_step:
\* [err, val], val the solved current.
find_min_current(mode, cm, ocv, crossed) == fsolve(mode, cm, ocv, Guess(mode), crossed)

\* ConstantVoltageCycleMode.validate
cv_validate(mode, cm) == [err |-> "none", status |-> NORMAL]

\* ConstantVoltageCycleMode.cycle_step, from the cutoff test on: root is the
\* current _find_min_current solved, ocv the open-circuit voltage.
cv_after_solve(mode, cm, res, mech, ocv, root) ==
    IF Abs(root) <= Abs(mode.current_cutoff)
    THEN Outcome(revert_concentrations(cm), res, [mode EXCEPT !.current = root], CURRENT_CUTOFF_REACHED,
                 check_capacity(res, CURRENT_CUTOFF_REACHED), "none",
                 FALSE, Conc(cm), TRUE, FALSE)
    ELSE Bind(update_concentrations(cm, mech, root),
              LAMBDA cm1 :
                  IF negative_concentrations(cm1)
                  THEN Outcome(revert_concentrations(cm1), res,
                               [mode EXCEPT !.current = root], NEGATIVE_CONCENTRATIONS,
                               check_capacity(res, NEGATIVE_CONCENTRATIONS), "none",
                               TRUE, Conc(cm1), TRUE, FALSE)
                  ELSE Bind(record_step(res, cm1, mode.charge, root, mode.voltage_limit, ocv),
                            LAMBDA rec :
                                IF rec.err # "none"
                                THEN Outcome(cm1, rec.results,
                                             [mode EXCEPT !.current = root], NORMAL,
                                             NORMAL, rec.err,
                                             TRUE, Conc(cm1), FALSE, FALSE)
                                ELSE Outcome(cm1, rec.results,
                                             [mode EXCEPT !.current = root], NORMAL,
                                             check_time(rec.results, NORMAL), "none",
                                             TRUE, Conc(cm1), FALSE, TRUE)))

\* ConstantVoltageCycleMode.cycle_step
cv_cycle_step(mode, cm, res, mech, crossed) ==
    IF mode.current # 0
       /\ Abs(mode.current) >= Min(mode.current_lim_cls, mode.current_lim_ncls)
    THEN Outcome(cm, res, mode, LIMITING_CURRENT_REACHED, LIMITING_CURRENT_REACHED, "none",
                 FALSE, Conc(cm), FALSE, FALSE)
    ELSE Bind(open_circuit_voltage(cm),
              LAMBDA ocv :
                  IF ocv.err # "none"
                  THEN Outcome(cm, res, [mode EXCEPT !.current = Guess(mode)], NORMAL,
                               NORMAL, ocv.err, FALSE, Conc(cm), FALSE, FALSE)
                  ELSE Bind(find_min_current(mode, cm, ocv.val, crossed),
                            LAMBDA root :
                                IF root.err # "none"
                                THEN Outcome(cm, res, [mode EXCEPT !.current = Guess(mode)], NORMAL,
                                             NORMAL, root.err,
                                             FALSE, Conc(cm), FALSE, FALSE)
                                ELSE cv_after_solve(mode, cm, res, mech, ocv.val, root.val)))

\* validate and cycle_step of whichever mode is active.
validate(mode, cm) == IF mode.kind = "CC" THEN cc_validate(mode, cm) ELSE cv_validate(mode, cm)

cycle_step(mode, cm, res, mech, crossed) ==
    IF mode.kind = "CC" THEN cc_cycle_step(mode, cm, res, mech)
    ELSE cv_cycle_step(mode, cm, res, mech, crossed)

\* ---------------------------------------------------------------- the state
VARIABLES
    protocol,      \* the CyclingProtocol object: its kind and constructor fields
    args,          \* the arguments of run: size = int(duration / time_increment),
                   \* degradation, cls_degradation, ncls_degradation, crossover
    cell_model,    \* the ZeroDModel object
    results,       \* the CyclingProtocolResults object of the run
    mechanisms,    \* what the update_concentrations closure binds
    cycle_mode,    \* run's local cycle_mode
    cycle_status,  \* run's local cycle_status
    is_cc_mode,    \* run's local is_cc_mode (ConstantCurrentConstantVoltage)
    pc,            \* "constructed", "loop", "returned" or "raised"
    err,           \* the exception run raised, "none" otherwise
    calls,         \* the number of cycle_step calls made so far
    last,          \* the last cycle_step call: what it was given and what it did
    method_call    \* a method called directly, outside run: its name, its
                   \* arguments, whether it has been made and what it returned

vars == <<protocol, args, cell_model, results, mechanisms, cycle_mode, cycle_status,
          is_cc_mode, pc, err, calls, last, method_call>>

\* ---------------------------------------------------------- CyclingProtocol
\* An argument that is omitted (None) or given.
None == [given |-> FALSE, val |-> 0]

Some(x) == [given |-> TRUE, val |-> x]

\* A faulty _validate_cycle_values: a single value X yields (X, X).
validate_cycle_values_unsigned(value, value_charge, value_discharge) ==
    IF value.given /\ (value_charge.given \/ value_discharge.given)
    THEN Raise("ValueError")
    ELSE IF value.given
    THEN IF value.val <= 0 THEN Raise("ValueError")
         ELSE Ok(<<value.val, value.val>>)
    ELSE IF ~value_charge.given THEN Raise("TypeError")
    ELSE IF value_charge.val <= 0 THEN Raise("ValueError")
    ELSE IF ~value_discharge.given THEN Raise("TypeError")
    ELSE IF value_discharge.val >= 0 THEN Raise("ValueError")
    ELSE Ok(<<value_charge.val, value_discharge.val>>)

\* CyclingProtocol._validate_cycle_values: [err, val], val the pair
\* (value_charge, value_discharge).  Comparing an omitted argument (None) with
\* 0.0 raises TypeError.
validate_cycle_values(value, value_charge, value_discharge) ==
    IF value.given /\ (value_charge.given \/ value_discharge.given)
    THEN Raise("ValueError")
    ELSE IF value.given
    THEN IF value.val <= 0 THEN Raise("ValueError")
         ELSE Ok(<<value.val, -value.val>>)
    ELSE IF ~value_charge.given THEN Raise("TypeError")
    ELSE IF value_charge.val <= 0 THEN Raise("ValueError")
    ELSE IF ~value_discharge.given THEN Raise("TypeError")
    ELSE IF value_discharge.val >= 0 THEN Raise("ValueError")
    ELSE Ok(<<value_charge.val, value_discharge.val>>)

\* A faulty _validate_protocol: the concentrations are not looked at.
validate_protocol_any_concentrations(p, cm, a) ==
    LET shared == a.degradation # "none"
        failed == \/ ~(p.voltage_limit_discharge < cm.init_ocv
                       /\ cm.init_ocv < p.voltage_limit_charge)
                  \/ (cm.init_ocv > 0 /\ p.voltage_limit_discharge < 0)
                  \/ (shared /\ (a.cls_degradation # "none" \/ a.ncls_degradation # "none"))
    IN  IF failed THEN [err |-> "ValueError", results |-> results, mechanisms |-> mechanisms]
        ELSE [err |-> "none",
              results |-> CyclingProtocolResults(a.size, p.charge_first),
              mechanisms |-> [cls_degradation |-> IF shared THEN a.degradation
                                                            ELSE a.cls_degradation,
                              ncls_degradation |-> IF shared THEN a.degradation
                                                             ELSE a.ncls_degradation,
                              crossover |-> a.crossover]]

\* A faulty _validate_protocol: an init_ocv equal to a voltage limit passes.
validate_protocol_inclusive(p, cm, a) ==
    LET shared == a.degradation # "none"
        failed == \/ ~(p.voltage_limit_discharge <= cm.init_ocv
                       /\ cm.init_ocv <= p.voltage_limit_charge)
                  \/ (cm.init_ocv > 0 /\ p.voltage_limit_discharge < 0)
                  \/ (shared /\ (a.cls_degradation # "none" \/ a.ncls_degradation # "none"))
                  \/ negative_concentrations(cm)
    IN  IF failed THEN [err |-> "ValueError", results |-> results, mechanisms |-> mechanisms]
        ELSE [err |-> "none",
              results |-> CyclingProtocolResults(a.size, p.charge_first),
              mechanisms |-> [cls_degradation |-> IF shared THEN a.degradation
                                                            ELSE a.cls_degradation,
                              ncls_degradation |-> IF shared THEN a.degradation
                                                             ELSE a.ncls_degradation,
                              crossover |-> a.crossover]]

\* CyclingProtocol._validate_protocol: [err, results, mechanisms].
validate_protocol(p, cm, a) ==
    LET shared == a.degradation # "none"
        mech == [cls_degradation |-> IF shared THEN a.degradation ELSE a.cls_degradation,
                 ncls_degradation |-> IF shared THEN a.degradation ELSE a.ncls_degradation,
                 crossover |-> a.crossover]
        failed == \/ ~(p.voltage_limit_discharge < cm.init_ocv
                       /\ cm.init_ocv < p.voltage_limit_charge)
                  \/ (cm.init_ocv > 0 /\ p.voltage_limit_discharge < 0)
                  \/ (shared /\ (a.cls_degradation # "none" \/ a.ncls_degradation # "none"))
                  \/ negative_concentrations(cm)
    IN  IF failed THEN [err |-> "ValueError", results |-> results, mechanisms |-> mechanisms]
        ELSE [err |-> "none",
              results |-> CyclingProtocolResults(a.size, p.charge_first),
              mechanisms |-> mech]

\* A faulty get_cc_cycle_mode: the capacity check at the voltage limit is left
\* on whatever the protocol asks for.
get_cc_cycle_mode_checked(p, cm, charge, capacity_check) ==
    ConstantCurrentCycleMode(charge, cm,
        IF charge THEN p.current_charge ELSE p.current_discharge,
        IF charge THEN p.voltage_limit_charge ELSE p.voltage_limit_discharge,
        TRUE)

\* A faulty get_cc_cycle_mode: the mode is built for the direction opposite to
\* the one asked for, so a flip keeps the direction of the mode that ended.
get_cc_cycle_mode_unflipped(p, cm, charge, capacity_check) ==
    ConstantCurrentCycleMode(~charge, cm,
        IF ~charge THEN p.current_charge ELSE p.current_discharge,
        IF ~charge THEN p.voltage_limit_charge ELSE p.voltage_limit_discharge,
        capacity_check)

\* get_cycle_mode of ConstantCurrent.run, get_cc_cycle_mode of
\* ConstantCurrentConstantVoltage.run.
get_cc_cycle_mode(p, cm, charge, capacity_check) ==
    ConstantCurrentCycleMode(charge, cm,
        IF charge THEN p.current_charge ELSE p.current_discharge,
        IF charge THEN p.voltage_limit_charge ELSE p.voltage_limit_discharge,
        capacity_check)

\* A faulty get_cv_cycle_mode: the mode is built for the direction opposite to
\* the one asked for.
get_cv_cycle_mode_opposite(p, cm, charge, current_estimate, current_lim_cls, current_lim_ncls) ==
    ConstantVoltageCycleMode(~charge, cm,
        IF ~charge THEN p.current_cutoff_charge ELSE p.current_cutoff_discharge,
        IF ~charge THEN p.voltage_limit_charge ELSE p.voltage_limit_discharge,
        current_estimate, current_lim_cls, current_lim_ncls)

\* A faulty get_cv_cycle_mode: the mode holds the charge voltage limit in
\* either direction.
get_cv_cycle_mode_charge_limit(p, cm, charge, current_estimate, current_lim_cls, current_lim_ncls) ==
    ConstantVoltageCycleMode(charge, cm,
        IF charge THEN p.current_cutoff_charge ELSE p.current_cutoff_discharge,
        p.voltage_limit_charge,
        current_estimate, current_lim_cls, current_lim_ncls)

\* A faulty get_cv_cycle_mode: the limiting currents handed over are dropped and
\* computed anew from the present concentrations.
get_cv_cycle_mode_recomputed(p, cm, charge, current_estimate, current_lim_cls, current_lim_ncls) ==
    ConstantVoltageCycleMode(charge, cm,
        IF charge THEN p.current_cutoff_charge ELSE p.current_cutoff_discharge,
        IF charge THEN p.voltage_limit_charge ELSE p.voltage_limit_discharge,
        current_estimate, 0, 0)

\* get_cycle_mode of ConstantVoltage.run, get_cv_cycle_mode of
\* ConstantCurrentConstantVoltage.run.
get_cv_cycle_mode(p, cm, charge, current_estimate, current_lim_cls, current_lim_ncls) ==
    ConstantVoltageCycleMode(charge, cm,
        IF charge THEN p.current_cutoff_charge ELSE p.current_cutoff_discharge,
        IF charge THEN p.voltage_limit_charge ELSE p.voltage_limit_discharge,
        current_estimate, current_lim_cls, current_lim_ncls)

\* The record kept of a cycle_step call.
LastCall(mode, cm, out) ==
    [kind |-> mode.kind, charge |-> mode.charge, before |-> Conc(cm),
     snapshot_before |-> [c_ox_cls |-> cm.prev_c_ox_cls, c_red_cls |-> cm.prev_c_red_cls,
                          c_ox_ncls |-> cm.prev_c_ox_ncls, c_red_ncls |-> cm.prev_c_red_ncls],
     step_before |-> results.step, capacity_before |-> results.capacity,
     half_cycles_before |-> results.half_cycles,
     reached |-> out.reached, status |-> out.status, err |-> out.err, counted |-> out.counted, after |-> out.after,
     reverted |-> out.reverted, recorded |-> out.recorded, current |-> out.cycle_mode.current,
     current_lim_cls |-> mode.current_lim_cls, current_lim_ncls |-> mode.current_lim_ncls,
     results_unchanged |-> (out.results = results)]

NoCall ==
    [kind |-> "none", charge |-> FALSE, before |-> Conc(cell_model),
     snapshot_before |-> Conc(cell_model),
     step_before |-> 0, capacity_before |-> 0, half_cycles_before |-> 0,
     reached |-> NORMAL, status |-> NORMAL, err |-> "none", counted |-> FALSE, after |-> Conc(cell_model),
     reverted |-> FALSE, recorded |-> FALSE, current |-> 0,
     current_lim_cls |-> 0, current_lim_ncls |-> 0, results_unchanged |-> TRUE]

\* Before run builds them there is no cycle mode and no recorder.
NoCycleMode ==
    [kind |-> "none", charge |-> FALSE, current |-> 0, voltage_limit |-> 0,
     voltage_limit_capacity_check |-> FALSE, current_cutoff |-> 0,
     current_lim_cls |-> 0, current_lim_ncls |-> 0]

NoResults == CyclingProtocolResults(0, FALSE)

\* No method has been called directly.
NoMethodCall == [op |-> "none", input |-> << >>, done |-> FALSE, val |-> << >>]

\* run raises e before or while starting: nothing else changes.
RaiseAtStart(e) ==
    /\ pc' = "raised"
    /\ err' = e
    /\ UNCHANGED <<protocol, args, cell_model, results, mechanisms, cycle_mode,
                   cycle_status, is_cc_mode, calls, last, method_call>>

\* run raises e out of a cycle_step call: what the call had done stays done.
RaiseInStep(out) ==
    /\ pc' = "raised"
    /\ err' = out.err
    /\ cell_model' = out.cell_model
    /\ results' = out.results
    /\ cycle_mode' = out.cycle_mode
    /\ last' = LastCall(cycle_mode, cell_model, out)
    /\ calls' = calls + 1
    /\ UNCHANGED <<protocol, args, mechanisms, cycle_status, is_cc_mode, method_call>>

\* A faulty start of ConstantCurrent.run: the opposite direction is not tried.
ConstantCurrentStartNoRetry ==
    /\ pc = "constructed"
    /\ protocol.kind = "CC"
    /\ \E v \in {validate_protocol(protocol, cell_model, args)} :
       IF v.err # "none" THEN RaiseAtStart(v.err)
       ELSE \E first \in {get_cc_cycle_mode(protocol, cell_model,
                                            protocol.charge_first, TRUE)} :
            \E first_status \in {validate(first, cell_model)} :
               IF first_status.err # "none" THEN RaiseAtStart(first_status.err)
               ELSE IF first_status.status # NORMAL THEN RaiseAtStart("ValueError")
               ELSE /\ pc' = "loop"
                    /\ results' = v.results
                    /\ mechanisms' = v.mechanisms
                    /\ cycle_mode' = first
                    /\ cycle_status' = NORMAL
                    /\ UNCHANGED <<protocol, args, cell_model, is_cc_mode, err, calls, last, method_call>>

\* ------------------------------------------------------- ConstantCurrent.run
\* From the call of run to the first test of the while loop.
ConstantCurrentStart ==
    /\ pc = "constructed"
    /\ protocol.kind = "CC"
    /\ \E v \in {validate_protocol(protocol, cell_model, args)} :
       IF v.err # "none" THEN RaiseAtStart(v.err)
       ELSE \E first \in {get_cc_cycle_mode(protocol, cell_model,
                                            protocol.charge_first, TRUE)},
               second \in {get_cc_cycle_mode(protocol, cell_model,
                                             ~protocol.charge_first, TRUE)} :
            \E first_status \in {validate(first, cell_model)},
               second_status \in {validate(second, cell_model)} :
               IF first_status.err # "none" THEN RaiseAtStart(first_status.err)
               ELSE IF first_status.status # NORMAL /\ second_status.err # "none"
               THEN RaiseAtStart(second_status.err)
               ELSE IF first_status.status # NORMAL /\ second_status.status # NORMAL
               THEN RaiseAtStart("ValueError")
               ELSE /\ pc' = "loop"
                    /\ results' = v.results
                    /\ mechanisms' = v.mechanisms
                    /\ cycle_mode' = IF first_status.status = NORMAL THEN first ELSE second
                    /\ cycle_status' = NORMAL
                    /\ UNCHANGED <<protocol, args, cell_model, is_cc_mode, err, calls, last, method_call>>

\* One iteration of the while loop of ConstantCurrent.run.
ConstantCurrentLoop ==
    /\ pc = "loop"
    /\ protocol.kind = "CC"
    /\ cycle_status = NORMAL
    /\ \E crossed \in SolverOutcomes(cycle_mode) :
       \E out \in {cycle_step(cycle_mode, cell_model, results, mechanisms, crossed)} :
       LET flip == out.status \in {NEGATIVE_CONCENTRATIONS, VOLTAGE_LIMIT_REACHED}
       IN  IF out.err # "none" THEN RaiseInStep(out)
           ELSE /\ cell_model' = out.cell_model
                /\ results' = IF flip THEN record_half_cycle(out.results, cycle_mode.charge)
                              ELSE out.results
                /\ cycle_mode' = IF flip
                                 THEN get_cc_cycle_mode(protocol, out.cell_model,
                                                        ~cycle_mode.charge, TRUE)
                                 ELSE out.cycle_mode
                /\ cycle_status' = IF flip THEN NORMAL ELSE out.status
                /\ last' = LastCall(cycle_mode, cell_model, out)
                /\ calls' = calls + 1
                /\ UNCHANGED <<protocol, args, mechanisms, is_cc_mode, pc, err, method_call>>

\* ------------------------------------------------------ ConstantVoltage.run
ConstantVoltageStart ==
    /\ pc = "constructed"
    /\ protocol.kind = "CV"
    /\ \E v \in {validate_protocol(protocol, cell_model, args)} :
       IF v.err # "none" THEN RaiseAtStart(v.err)
       ELSE \E first \in {get_cv_cycle_mode(protocol, cell_model,
                                            protocol.charge_first, 0, 0, 0)} :
            IF validate(first, cell_model).status # NORMAL THEN RaiseAtStart("ValueError")
            ELSE /\ pc' = "loop"
                 /\ results' = v.results
                 /\ mechanisms' = v.mechanisms
                 /\ cycle_mode' = first
                 /\ cycle_status' = NORMAL
                 /\ UNCHANGED <<protocol, args, cell_model, is_cc_mode, err, calls, last, method_call>>

\* One iteration of the while loop of ConstantVoltage.run.
ConstantVoltageLoop ==
    /\ pc = "loop"
    /\ protocol.kind = "CV"
    /\ cycle_status = NORMAL
    /\ \E crossed \in SolverOutcomes(cycle_mode) :
       \E out \in {cycle_step(cycle_mode, cell_model, results, mechanisms, crossed)} :
       LET flip == out.status \in {CURRENT_CUTOFF_REACHED, NEGATIVE_CONCENTRATIONS}
       IN  IF out.err # "none" THEN RaiseInStep(out)
           ELSE /\ cell_model' = out.cell_model
                /\ results' = IF flip THEN record_half_cycle(out.results, cycle_mode.charge)
                              ELSE out.results
                /\ cycle_mode' = IF flip
                                 THEN get_cv_cycle_mode(protocol, out.cell_model,
                                                        ~cycle_mode.charge,
                                                        out.cycle_mode.current, 0, 0)
                                 ELSE out.cycle_mode
                /\ cycle_status' = IF flip THEN NORMAL ELSE out.status
                /\ last' = LastCall(cycle_mode, cell_model, out)
                /\ calls' = calls + 1
                /\ UNCHANGED <<protocol, args, mechanisms, is_cc_mode, pc, err, method_call>>

\* ------------------------------------ ConstantCurrentConstantVoltage.run
ConstantCurrentConstantVoltageStart ==
    /\ pc = "constructed"
    /\ protocol.kind = "CCCV"
    /\ \E v \in {validate_protocol(protocol, cell_model, args)} :
       IF v.err # "none" THEN RaiseAtStart(v.err)
       ELSE \E cc \in {get_cc_cycle_mode(protocol, cell_model,
                                         protocol.charge_first, FALSE)},
               cv \in {get_cv_cycle_mode(protocol, cell_model, protocol.charge_first,
                                         IF protocol.charge_first
                                         THEN protocol.current_charge
                                         ELSE protocol.current_discharge, 0, 0)} :
            \E cc_status \in {validate(cc, cell_model)} :
               IF cc_status.err # "none" THEN RaiseAtStart(cc_status.err)
               ELSE /\ pc' = "loop"
                    /\ results' = v.results
                    /\ mechanisms' = v.mechanisms
                    /\ is_cc_mode' = (cc_status.status = NORMAL)
                    /\ cycle_mode' = IF cc_status.status = NORMAL THEN cc ELSE cv
                    /\ cycle_status' = IF cc_status.status = NORMAL THEN NORMAL
                                       ELSE validate(cv, cell_model).status
                    /\ UNCHANGED <<protocol, args, cell_model, err, calls, last, method_call>>

\* One iteration of the while loop of ConstantCurrentConstantVoltage.run.
ConstantCurrentConstantVoltageLoop ==
    /\ pc = "loop"
    /\ protocol.kind = "CCCV"
    /\ cycle_status = NORMAL
    /\ \E crossed \in SolverOutcomes(cycle_mode) :
       \E out \in {cycle_step(cycle_mode, cell_model, results, mechanisms, crossed)} :
       LET trouble == is_cc_mode /\ Abs(cycle_mode.current) >=
                          Min(cycle_mode.current_lim_cls, cycle_mode.current_lim_ncls)
           cc_now == is_cc_mode /\ ~trouble
           m == out.cycle_mode
       IN  IF out.err # "none"
           THEN /\ RaiseInStep(out)
           ELSE /\ cell_model' = out.cell_model
                /\ last' = LastCall(cycle_mode, cell_model, out)
                /\ calls' = calls + 1
                /\ UNCHANGED <<protocol, args, mechanisms, pc, err, method_call>>
                /\ IF out.status = VOLTAGE_LIMIT_REACHED
                   THEN /\ is_cc_mode' = FALSE
                        /\ cycle_mode' = get_cv_cycle_mode(protocol, out.cell_model, m.charge,
                                             m.current, m.current_lim_cls, m.current_lim_ncls)
                        /\ results' = out.results
                        /\ cycle_status' = NORMAL
                   ELSE IF out.status = CURRENT_CUTOFF_REACHED
                   THEN /\ is_cc_mode' = TRUE
                        /\ cycle_mode' = get_cc_cycle_mode(protocol, out.cell_model,
                                                           ~m.charge, FALSE)
                        /\ results' = record_half_cycle(out.results, m.charge)
                        /\ cycle_status' = NORMAL
                   ELSE IF out.status = NEGATIVE_CONCENTRATIONS
                   THEN /\ is_cc_mode' = cc_now
                        /\ cycle_mode' = IF cc_now
                                         THEN get_cc_cycle_mode(protocol, out.cell_model,
                                                                ~m.charge, FALSE)
                                         ELSE get_cv_cycle_mode(protocol, out.cell_model,
                                                                ~m.charge, m.current, 0, 0)
                        /\ results' = record_half_cycle(out.results, m.charge)
                        /\ cycle_status' = NORMAL
                   ELSE /\ is_cc_mode' = cc_now
                        /\ cycle_mode' = m
                        /\ results' = out.results
                        /\ cycle_status' = out.status

\* The while loop ends on a status other than NORMAL: run prints it and returns
\* the results.
Return ==
    /\ pc = "loop"
    /\ cycle_status # NORMAL
    /\ pc' = "returned"
    /\ UNCHANGED <<protocol, args, cell_model, results, mechanisms, cycle_mode,
                   cycle_status, is_cc_mode, err, calls, last, method_call>>

\* ------------------------------------------------------------ the inputs
\* The charge voltage limit of a symmetric cell, in voltage units.
VLimit == 6

\* (init_ocv, voltage_limit_discharge, voltage_limit_charge) that bracket
\* init_ocv: a symmetric cell and a full cell.
Voltages ==
    {[init_ocv |-> 0, discharge |-> -VLimit, charge |-> VLimit],
     [init_ocv |-> VLimit + 1, discharge |-> 1, charge |-> 2 * VLimit + 1]}

\* Limits _validate_protocol rejects: init_ocv equal to the charge limit, equal
\* to the discharge limit, above the charge limit, and a negative discharge
\* limit with a positive init_ocv.
RejectedVoltages ==
    {[init_ocv |-> VLimit, discharge |-> 0, charge |-> VLimit],
     [init_ocv |-> 0, discharge |-> 0, charge |-> VLimit],
     [init_ocv |-> VLimit + 1, discharge |-> 0, charge |-> VLimit],
     [init_ocv |-> 1, discharge |-> -VLimit, charge |-> VLimit]}

\* (degradation, cls_degradation, ncls_degradation, crossover) as passed to run.
MechanismArgs(degradation, cls_degradation, ncls_degradation, crossover_params) ==
    [degradation |-> degradation, cls_degradation |-> cls_degradation,
     ncls_degradation |-> ncls_degradation, crossover |-> crossover_params]

Mechanisms ==
    {MechanismArgs("none", "none", "none", "none"),
     MechanismArgs("red", "none", "none", "none"),
     MechanismArgs("none", "red", "none", "none"),
     MechanismArgs("none", "none", "none", "cross")}

\* A shared and a CLS mechanism together: rejected by _validate_protocol.
RejectedMechanisms == {MechanismArgs("red", "red", "none", "none")}

\* Start concentrations of the CLS species and of the reduced NCLS species.
ClsStart == {0, 1, MaxConc - 1, MaxConc}

NclsStart == {1, MaxConc + 1}

\* Recorder sizes int(duration / time_increment).
Sizes == {0, 2, 3, MaxSize}

\* The two ways of giving a current X to a protocol's __init__, as (current,
\* current_charge, current_discharge).
SingleCurrent(x) == <<Some(x), None, None>>

SplitCurrent(x) == <<None, Some(x), Some(-x)>>

\* The current arguments the protocols are constructed with: ConstantCurrent in
\* both ways, the other protocols with the single value.
CurrentArguments(kind, x) ==
    IF kind = "CC" THEN {SingleCurrent(x), SplitCurrent(x)} ELSE {SingleCurrent(x)}

\* The state when run is called: a constructed protocol (its currents and
\* cutoffs have passed _validate_cycle_values) and a constructed cell.
InitWith(kinds, voltages, sizes, mechs, cls_start, ncls_start, resistances) ==
    /\ \E kind \in kinds, charge_first \in BOOLEAN,
          x \in 1..MaxCurrent, v \in voltages :
          \E a \in CurrentArguments(kind, x) :
             \E currents \in {validate_cycle_values(a[1], a[2], a[3])},
                cutoffs \in {validate_cycle_values(Some(1), None, None)} :
                protocol = [kind |-> kind, charge_first |-> charge_first,
                            voltage_limit_charge |-> v.charge,
                            voltage_limit_discharge |-> v.discharge,
                            current_arguments |-> a,
                            current_charge |-> currents.val[1],
                            current_discharge |-> currents.val[2],
                            current_cutoff_charge |-> cutoffs.val[1],
                            current_cutoff_discharge |-> cutoffs.val[2],
                            init_ocv |-> v.init_ocv]
    /\ \E size \in sizes, m \in mechs :
          args = [size |-> size, degradation |-> m.degradation,
                  cls_degradation |-> m.cls_degradation,
                  ncls_degradation |-> m.ncls_degradation, crossover |-> m.crossover]
    /\ \E ox_cls \in cls_start, red_cls \in cls_start, red_ncls \in ncls_start,
          resistance \in resistances, cls_negolyte \in BOOLEAN :
          cell_model = ZeroDModel(ox_cls, red_cls, MaxConc + 1, red_ncls,
                                  protocol.init_ocv, resistance, cls_negolyte)
    /\ results = NoResults
    /\ mechanisms = [cls_degradation |-> "none", ncls_degradation |-> "none",
                     crossover |-> "none"]
    /\ cycle_mode = NoCycleMode
    /\ cycle_status = NORMAL
    /\ is_cc_mode = TRUE
    /\ pc = "constructed"
    /\ err = "none"
    /\ calls = 0
    /\ last = NoCall
    /\ method_call = NoMethodCall

Kinds == {"CC", "CV", "CCCV"}

\* The ohmic resistance of a cell whose ohmic loss outweighs its
\* mass-transport term: what holds such a cell at a voltage limit is a current
\* above the cutoff.
HighResistance == 4

\* The constant-voltage runs on cells of high resistance.
ResistiveInit ==
    InitWith({"CV"}, Voltages, {MaxSize}, {MechanismArgs("none", "none", "none", "none")},
             {MaxConc - 1, MaxConc}, {MaxConc + 1}, {HighResistance})

Init ==
    \/ InitWith(Kinds, Voltages, Sizes, Mechanisms, ClsStart, NclsStart, {1})
    \/ InitWith(Kinds, RejectedVoltages, {MaxSize}, Mechanisms, {MaxConc}, {MaxConc + 1}, {1})
    \/ InitWith(Kinds, Voltages, {MaxSize}, RejectedMechanisms, {MaxConc}, {MaxConc + 1}, {1})
    \/ InitWith(Kinds, Voltages, {MaxSize}, Mechanisms, {-1, MaxConc}, {MaxConc + 1}, {1})
    \/ ResistiveInit

Next ==
    \/ ConstantCurrentStart
    \/ ConstantCurrentLoop
    \/ ConstantVoltageStart
    \/ ConstantVoltageLoop
    \/ ConstantCurrentConstantVoltageStart
    \/ ConstantCurrentConstantVoltageLoop
    \/ Return

Spec == Init /\ [][Next]_vars

\* ------------------------------------------- methods called outside a run
\* The cells coulomb_counter is called on: every mix of empty, nearly empty
\* and full species, either polarity.
Cells ==
    {ZeroDModel(ox_cls, red_cls, ox_ncls, red_ncls, 0, 1, cls_negolyte) :
        ox_cls \in {0, 1, MaxConc}, red_cls \in {0, 1, MaxConc},
        ox_ncls \in {0, 1, MaxConc}, red_ncls \in {0, 1, MaxConc},
        cls_negolyte \in BOOLEAN}

\* The mechanisms the update_concentrations closure can bind.
BoundMechanisms ==
    [cls_degradation : {"none", "red"}, ncls_degradation : {"none", "red"},
     crossover : {"none", "cross"}]

RECURSIVE AfterSteps(_, _, _)
\* The recorder after n more steps of the given current have been recorded.
AfterSteps(res, n, current) ==
    IF n = 0 THEN res
    ELSE AfterSteps(record_step(res, ZeroDModel(1, 1, 1, 1, 0, 1, TRUE),
                                TRUE, current, 0, 0).results, n - 1, current)

RECURSIVE AfterHalfCycles(_, _, _)
\* The recorder after n half-cycles of one step of the given current each.
AfterHalfCycles(res, n, current) ==
    IF n = 0 THEN res
    ELSE AfterHalfCycles(record_half_cycle(AfterSteps(res, 1, current), n % 2 = 1),
                         n - 1, current)

\* The recorders check_capacity is called on: up to HalfCycleFloor + 2
\* completed half-cycles, then up to two steps of the running half-cycle.
Recorders ==
    {AfterSteps(AfterHalfCycles(CyclingProtocolResults(MaxSize, TRUE), n, 1), k, current) :
        n \in 0..(HalfCycleFloor + 2), k \in 0..2, current \in 1..MaxCurrent}

\* The values an argument of _validate_cycle_values takes.
CycleValues == {None} \cup {Some(x) : x \in (-1)..MaxCurrent}

\* The charge-transfer coefficient 1.0, in the units the coefficients are
\* written in here (halves: the default 0.5 is 1).
AlphaOne == 2

\* The constructor's parameters that are checked or merely stored, all valid:
\* volumes, rate constants, area, time step, mass-transport coefficient,
\* roughness factor and electron numbers 1, coefficients 0.5, resistance and
\* init_ocv 0.
ConstructorDefaults ==
    [cls_volume |-> 1, ncls_volume |-> 1, init_ocv |-> 0, resistance |-> 0,
     k_0_cls |-> 1, k_0_ncls |-> 1, alpha_cls |-> 1, alpha_ncls |-> 1,
     geometric_area |-> 1, time_increment |-> 1, k_mt |-> 1,
     roughness_factor |-> 1, n_cls |-> 1, n_ncls |-> 1]

\* The parameters the documentation of ZeroDModel gives as quantities that
\* are positive.
PositiveParameters ==
    {"cls_volume", "ncls_volume", "k_0_cls", "k_0_ncls", "geometric_area",
     "time_increment", "k_mt", "roughness_factor", "n_cls", "n_ncls"}

AlphaParameters == {"alpha_cls", "alpha_ncls"}

NonNegativeParameters == {"init_ocv", "resistance"}

\* The values a parameter of the constructor takes here.
ConstructorValues(f) ==
    IF f \in AlphaParameters THEN (-1)..(AlphaOne + 1) ELSE (-1)..1

\* The constructor calls: the defaults with up to two parameters changed.
ConstructorInputs ==
    {[ConstructorDefaults EXCEPT ![f] = v, ![g] = w] :
        <<f, v, g, w>> \in {q \in (DOMAIN ConstructorDefaults) \X ((-1)..(AlphaOne + 1))
                                  \X (DOMAIN ConstructorDefaults) \X ((-1)..(AlphaOne + 1)) :
                               /\ q[2] \in ConstructorValues(q[1])
                               /\ q[4] \in ConstructorValues(q[3])}}

\* const_i_ex = F * roughness_factor * geometric_area, in units of F (F > 0).
const_i_ex(p) == p.roughness_factor * p.geometric_area

\* The three checks that end ZeroDModel.__init__.
zero_d_model_init(p) ==
    IF \E x \in {p.cls_volume, p.ncls_volume, p.k_0_cls, p.k_0_ncls, p.geometric_area,
                 p.time_increment, p.k_mt, const_i_ex(p)} : x <= 0
    THEN Raise("ValueError")
    ELSE IF \E x \in {p.init_ocv, p.resistance} : x < 0
    THEN Raise("ValueError")
    ELSE IF ~(0 < p.alpha_cls /\ p.alpha_cls < AlphaOne)
            \/ ~(0 < p.alpha_ncls /\ p.alpha_ncls < AlphaOne)
    THEN Raise("ValueError")
    ELSE Ok(p)

MethodInit ==
    /\ protocol = [kind |-> "none"]
    /\ args = [size |-> MaxSize]
    /\ mechanisms = [cls_degradation |-> "none", ncls_degradation |-> "none",
                     crossover |-> "none"]
    /\ cycle_mode = NoCycleMode
    /\ cycle_status = NORMAL
    /\ is_cc_mode = TRUE
    /\ pc = "method"
    /\ err = "none"
    /\ calls = 0
    /\ \/ /\ cell_model \in Cells
          /\ results = CyclingProtocolResults(MaxSize, TRUE)
          /\ \E current \in (-MaxCurrent)..MaxCurrent, m \in BoundMechanisms :
                method_call = [op |-> "coulomb_counter",
                               input |-> [current |-> current, mechanisms |-> m],
                               done |-> FALSE, val |-> << >>]
       \/ /\ cell_model = ZeroDModel(1, 1, 1, 1, 0, 1, TRUE)
          /\ results \in Recorders
          /\ \E status \in CycleStatus :
                method_call = [op |-> "check_capacity", input |-> status,
                               done |-> FALSE, val |-> << >>]
       \/ /\ cell_model = ZeroDModel(1, 1, 1, 1, 0, 1, TRUE)
          /\ results = CyclingProtocolResults(MaxSize, TRUE)
          /\ \E value \in CycleValues, value_charge \in CycleValues,
                value_discharge \in CycleValues :
                method_call = [op |-> "_validate_cycle_values",
                               input |-> <<value, value_charge, value_discharge>>,
                               done |-> FALSE, val |-> << >>]
       \/ /\ cell_model = ZeroDModel(1, 1, 1, 1, 0, 1, TRUE)
          /\ results = CyclingProtocolResults(MaxSize, TRUE)
          /\ \E p \in ConstructorInputs :
                method_call = [op |-> "ZeroDModel", input |-> p,
                               done |-> FALSE, val |-> << >>]
    /\ last = NoCall

\* cell_model.coulomb_counter(current, cls_degradation, ncls_degradation, crossover)
CallCoulombCounter ==
    /\ pc = "method"
    /\ method_call.op = "coulomb_counter"
    /\ ~method_call.done
    /\ cell_model' = coulomb_counter(cell_model, method_call.input.current,
                                     method_call.input.mechanisms.cls_degradation,
                                     method_call.input.mechanisms.ncls_degradation,
                                     method_call.input.mechanisms.crossover)
    /\ method_call' = [method_call EXCEPT !.done = TRUE,
                           !.val = [before |-> Conc(cell_model),
                                    returned |-> <<cell_model'.delta_ox,
                                                   cell_model'.delta_red>>]]
    /\ UNCHANGED <<protocol, args, results, mechanisms, cycle_mode, cycle_status,
                   is_cc_mode, pc, err, calls, last>>

\* cycle_mode.check_capacity(cycle_status), on the recorder of the mode.
CallCheckCapacity ==
    /\ pc = "method"
    /\ method_call.op = "check_capacity"
    /\ ~method_call.done
    /\ method_call' = [method_call EXCEPT !.done = TRUE,
                           !.val = check_capacity(results, method_call.input)]
    /\ UNCHANGED <<protocol, args, cell_model, results, mechanisms, cycle_mode,
                   cycle_status, is_cc_mode, pc, err, calls, last>>

\* CyclingProtocol._validate_cycle_values(value, value_charge, value_discharge, name)
CallValidateCycleValues ==
    /\ pc = "method"
    /\ method_call.op = "_validate_cycle_values"
    /\ ~method_call.done
    /\ \E out \in {validate_cycle_values(method_call.input[1], method_call.input[2],
                                         method_call.input[3])} :
          /\ method_call' = [method_call EXCEPT !.done = TRUE, !.val = out.val]
          /\ err' = out.err
    /\ UNCHANGED <<protocol, args, cell_model, results, mechanisms, cycle_mode,
                   cycle_status, is_cc_mode, pc, calls, last>>

\* ZeroDModel(**parameters)
CallZeroDModel ==
    /\ pc = "method"
    /\ method_call.op = "ZeroDModel"
    /\ ~method_call.done
    /\ \E out \in {zero_d_model_init(method_call.input)} :
          /\ method_call' = [method_call EXCEPT !.done = TRUE, !.val = out.val]
          /\ err' = out.err
    /\ UNCHANGED <<protocol, args, cell_model, results, mechanisms, cycle_mode,
                   cycle_status, is_cc_mode, pc, calls, last>>

MethodNext ==
    \/ CallCoulombCounter
    \/ CallCheckCapacity
    \/ CallValidateCycleValues
    \/ CallZeroDModel

MethodSpec == MethodInit /\ [][MethodNext]_vars

\* ------------------------------------------- the recorder, called directly
\* The size of the recorders that are called directly.
MaxRecorded == 3

\* The number of half-cycles recorded directly.
MaxHalfCycles == 3

\* The currents of the steps recorded directly: either sign, two magnitudes.
RecordedCurrents == {-1, MaxCurrent}

\* CyclingProtocolResults(duration, time_increment), with no step and no
\* half-cycle recorded; the cell the steps are recorded from is fixed.
RecorderInit ==
    /\ protocol = [kind |-> "none"]
    /\ args \in [size : {0, MaxRecorded}]
    /\ mechanisms = [cls_degradation |-> "none", ncls_degradation |-> "none",
                     crossover |-> "none"]
    /\ cycle_mode = NoCycleMode
    /\ cycle_status = NORMAL
    /\ is_cc_mode = TRUE
    /\ pc = "recorder"
    /\ err = "none"
    /\ calls = 0
    /\ cell_model = ZeroDModel(1, 1, 1, 1, 0, 1, TRUE)
    /\ results = CyclingProtocolResults(args.size, TRUE)
    /\ method_call = NoMethodCall
    /\ last = NoCall

\* results.record_step(cell_model, charge, current, cell_v, ocv): an IndexError
\* goes to the caller, who records no further step.
CallRecordStep ==
    /\ pc = "recorder"
    /\ err = "none"
    /\ \E charge \in BOOLEAN, current \in RecordedCurrents :
       \E out \in {record_step(results, cell_model, charge, current, 0, 0)} :
          /\ results' = out.results
          /\ err' = out.err
          /\ method_call' = [op |-> "record_step", input |-> << >>,
                             done |-> TRUE, val |-> << >>]
    /\ UNCHANGED <<protocol, args, cell_model, mechanisms, cycle_mode, cycle_status,
                   is_cc_mode, pc, calls, last>>

\* results.record_half_cycle(charge)
CallRecordHalfCycle ==
    /\ pc = "recorder"
    /\ results.half_cycles < MaxHalfCycles
    /\ \E charge \in BOOLEAN :
          /\ results' = record_half_cycle(results, charge)
          /\ method_call' = [op |-> "record_half_cycle", input |-> << >>,
                             done |-> TRUE, val |-> << >>]
    /\ UNCHANGED <<protocol, args, cell_model, mechanisms, cycle_mode, cycle_status,
                   is_cc_mode, pc, err, calls, last>>

RecorderNext ==
    \/ CallRecordStep
    \/ CallRecordHalfCycle

RecorderSpec == RecorderInit /\ [][RecorderNext]_vars

\* ------------------------------------------------------------- properties
\* The statuses that end a run.
TerminalStatuses == {LIMITING_CURRENT_REACHED, LOW_CAPACITY, TIME_DURATION_REACHED}

\* Some concentration of the tuple c is negative.
SomeNegative(c) ==
    c.c_ox_cls < 0 \/ c.c_red_cls < 0 \/ c.c_ox_ncls < 0 \/ c.c_red_ncls < 0

\* run is over: it returned or an exception escaped.
RunOver == pc \in {"returned", "raised"}

\* C1: in a run of any protocol, after every cycle_step call all four
\* concentrations of the model are >= 0: a count that drove one below zero has
\* been reverted and turned into a status.
C1_ConcentrationsStayNonNegative ==
    calls > 0 => ~SomeNegative(cell_model)

\* C1 happens: a cycle_step counted, a concentration went negative, the call
\* reverted and returned a status.
C1_NegativeCountReverted ==
    /\ calls > 0
    /\ last.err = "none"
    /\ last.counted
    /\ SomeNegative(last.after)
    /\ last.status \in {NEGATIVE_CONCENTRATIONS, LOW_CAPACITY}

\* C2: coulomb_counter with no degradation and no crossover leaves
\* c_ox_cls + c_red_cls and c_ox_ncls + c_red_ncls unchanged and returns (0, 0).
C2_CountConservesEachReservoir ==
    (/\ method_call.op = "coulomb_counter"
     /\ method_call.done
     /\ method_call.input.mechanisms.cls_degradation = "none"
     /\ method_call.input.mechanisms.ncls_degradation = "none"
     /\ method_call.input.mechanisms.crossover = "none")
    => /\ cell_model.c_ox_cls + cell_model.c_red_cls
            = method_call.val.before.c_ox_cls + method_call.val.before.c_red_cls
       /\ cell_model.c_ox_ncls + cell_model.c_red_ncls
            = method_call.val.before.c_ox_ncls + method_call.val.before.c_red_ncls
       /\ method_call.val.returned = <<0, 0>>

\* C2 happens: a count with no mechanism and a non-zero current has moved
\* species within both reservoirs.
C2_CountWithoutMechanisms ==
    /\ method_call.op = "coulomb_counter"
    /\ method_call.done
    /\ method_call.input.mechanisms
         = [cls_degradation |-> "none", ncls_degradation |-> "none", crossover |-> "none"]
    /\ method_call.input.current # 0
    /\ cell_model.c_red_cls # method_call.val.before.c_red_cls
    /\ cell_model.c_red_ncls # method_call.val.before.c_red_ncls

\* C3: when the count inside a cycle_step makes a concentration negative,
\* negative_concentrations() is true and the revert that follows restores the
\* four concentrations the cell had just before the count, in both modes and
\* with any mechanisms.
C3_RevertRestoresPreCount ==
    (calls > 0 /\ last.counted /\ SomeNegative(last.after))
    => /\ negative_concentrations(last.after)
       /\ last.reverted
       /\ Conc(cell_model) = last.before

\* C3 happens: a constant-voltage step with crossover counted into negative
\* concentrations and was reverted.
C3_RevertedVoltageStepWithCrossover ==
    /\ calls > 0
    /\ last.kind = "CV"
    /\ mechanisms.crossover = "cross"
    /\ last.counted
    /\ SomeNegative(last.after)
    /\ last.reverted

\* C4: once the first cycle_step has been called, no exception escapes from run.
C4_NoExceptionOnceStepping ==
    pc = "raised" => calls = 0

\* C5: in a run with a positive size, record_step is never called with the step
\* index at the arrays' size (the call raises IndexError), also after the step
\* that filled the last slot returned VOLTAGE_LIMIT_REACHED.
C5_RecordStepWithinBuffer ==
    (calls > 0 /\ args.size > 0) => last.err # "IndexError"

\* C6: a run that has started stepping is in its loop or has left it with a
\* final status that is LIMITING_CURRENT_REACHED, LOW_CAPACITY or
\* TIME_DURATION_REACHED.
C6_LoopExitsOnTerminalStatus ==
    calls > 0 => \/ pc = "loop"
                 \/ pc = "returned" /\ cycle_status \in TerminalStatuses

\* C7 as stated: check_capacity returns LOW_CAPACITY exactly when the capacity
\* is below 1 coulomb and at least two half-cycles are completed.
C7_OverridesFromTwoHalfCycles ==
    (method_call.op = "check_capacity" /\ method_call.done)
    => method_call.val = IF results.capacity < OneCoulomb /\ results.half_cycles >= 2
                         THEN LOW_CAPACITY
                         ELSE method_call.input

\* C7 amended: check_capacity returns LOW_CAPACITY exactly when the capacity is
\* below 1 coulomb and more than two half-cycles are completed; otherwise it
\* returns the status it was given.
C7_OverridesAfterTwoHalfCycles ==
    (method_call.op = "check_capacity" /\ method_call.done)
    => method_call.val = IF results.capacity < OneCoulomb /\ results.half_cycles > 2
                         THEN LOW_CAPACITY
                         ELSE method_call.input

\* C7 happens: check_capacity was called with less than 1 coulomb and exactly
\* two half-cycles completed, and returned the status it was given.
C7_TwoHalfCyclesNotOverridden ==
    /\ method_call.op = "check_capacity"
    /\ method_call.done
    /\ results.capacity < OneCoulomb
    /\ results.half_cycles = 2
    /\ method_call.input = NEGATIVE_CONCENTRATIONS
    /\ method_call.val = NEGATIVE_CONCENTRATIONS

\* A mechanism degrades a reservoir in this run.
Degrading == mechanisms.cls_degradation # "none" \/ mechanisms.ncls_degradation # "none"

\* C8: a ConstantCurrent run with degradation whose half-cycles (three or more)
\* each delivered less than 1 coulomb is over only with final status
\* LOW_CAPACITY.
C8_DegradedRunEndsLowCapacity ==
    (/\ protocol.kind = "CC"
     /\ Degrading
     /\ RunOver
     /\ Len(results.half_cycle_capacity) > HalfCycleFloor
     /\ \A k \in DOMAIN results.half_cycle_capacity :
            results.half_cycle_capacity[k] < OneCoulomb)
    => pc = "returned" /\ cycle_status = LOW_CAPACITY

\* init_ocv lies strictly between the voltage limits of the protocol.
LimitsBracketOcv ==
    /\ protocol.voltage_limit_discharge < cell_model.init_ocv
    /\ cell_model.init_ocv < protocol.voltage_limit_charge

\* C9: when init_ocv is not strictly between voltage_limit_discharge and
\* voltage_limit_charge, run raises ValueError before a cycle mode is built:
\* the cell and its concentrations are unchanged, no recorder is created and
\* no cycle_step is called.
C9_LimitsRejectedFirst ==
    [][(pc = "constructed" /\ ~LimitsBracketOcv)
       => /\ pc' = "raised"
          /\ err' = "ValueError"
          /\ cell_model' = cell_model
          /\ results' = NoResults
          /\ cycle_mode' = NoCycleMode
          /\ calls' = 0]_vars

\* C9 happens: run has raised ValueError for an init_ocv equal to the charge
\* voltage limit.
C9_RunRejectedOcvAtLimit ==
    /\ pc = "raised"
    /\ err = "ValueError"
    /\ cell_model.init_ocv = protocol.voltage_limit_charge
    /\ calls = 0

\* C10: _validate_cycle_values raises ValueError or returns (charge, discharge)
\* with charge > 0 and discharge < 0; it raises ValueError when the single
\* value comes with a split value; a single value X alone yields (X, -X).
C10_ValueErrorOrSignedPair ==
    (method_call.op = "_validate_cycle_values" /\ method_call.done)
    => LET value == method_call.input[1]
           value_charge == method_call.input[2]
           value_discharge == method_call.input[3]
       IN  /\ \/ err = "ValueError"
              \/ err = "none" /\ method_call.val[1] > 0 /\ method_call.val[2] < 0
           /\ (value.given /\ (value_charge.given \/ value_discharge.given))
              => err = "ValueError"
           /\ (value.given /\ ~value_charge.given /\ ~value_discharge.given
               /\ err = "none")
              => method_call.val = <<value.val, -value.val>>

\* The current X a protocol was constructed with.
GivenCurrent(p) ==
    IF p.current_arguments[1].given THEN p.current_arguments[1].val
    ELSE p.current_arguments[2].val

\* The arguments of the twin of protocol p: the same X given the other way.
TwinArguments(p) ==
    IF p.current_arguments[1].given THEN SplitCurrent(GivenCurrent(p))
    ELSE SingleCurrent(GivenCurrent(p))

\* C11: a ConstantCurrent protocol given current=X and one given
\* current_charge=X, current_discharge=-X hold the same currents, and every
\* cycle mode of a run carries the current the twin's mode of that direction
\* would carry; run reads nothing else of the current arguments, so the two
\* runs take the same steps and return the same half_cycle_capacity.
C11_SplitCurrentsRunAlike ==
    protocol.kind = "CC"
    => \E twin \in {validate_cycle_values(TwinArguments(protocol)[1],
                                           TwinArguments(protocol)[2],
                                           TwinArguments(protocol)[3])} :
          /\ twin.err = "none"
          /\ twin.val = <<protocol.current_charge, protocol.current_discharge>>
          /\ cycle_mode.kind = "CC"
             => cycle_mode.current = IF cycle_mode.charge THEN twin.val[1] ELSE twin.val[2]

\* C11 happens: a ConstantCurrent run given split currents has returned with
\* two or more half-cycles recorded, both directions stepped.
C11_SplitRunReturned ==
    /\ protocol.kind = "CC"
    /\ protocol.current_arguments = SplitCurrent(protocol.current_charge)
    /\ pc = "returned"
    /\ Len(results.half_cycle_capacity) >= 2
    /\ results.step >= 2

\* The voltage limit of the direction of the last cycle_step call.
LastLimit ==
    IF last.charge THEN protocol.voltage_limit_charge ELSE protocol.voltage_limit_discharge

\* The cell voltage the last cycle_step call recorded.
LastCellV == results.cell_v[last.step_before + 1]

\* C12: a constant-current step that was recorded reached VOLTAGE_LIMIT_REACHED
\* exactly when the limit of its direction was crossed: cell voltage at or above
\* voltage_limit_charge when charging, at or below voltage_limit_discharge when
\* discharging.
C12_LimitFlaggedWhenCrossed ==
    (calls > 0 /\ last.kind = "CC" /\ last.recorded)
    => (last.reached = VOLTAGE_LIMIT_REACHED
        <=> IF last.charge THEN LastCellV >= LastLimit ELSE LastCellV <= LastLimit)

\* The first cycle_step call of a ConstantCurrentConstantVoltage run was made
\* by a constant-voltage mode: the initial validate of the constant-current
\* mode was not NORMAL and run skipped to CV.
SkippedToCV == protocol.kind = "CCCV" /\ calls = 1 /\ last.kind = "CV"

\* C13: when a ConstantCurrentConstantVoltage run skips to CV at the start, the
\* first constant-voltage call is made in the starting direction and, unless it
\* raises, does not end the run with LIMITING_CURRENT_REACHED.
C13_SkipToCVKeepsCycling ==
    (SkippedToCV /\ last.err = "none")
    => /\ last.charge = protocol.charge_first
       /\ last.status # LIMITING_CURRENT_REACHED

\* The last cycle_step call was the first of its half-cycle: no capacity had
\* been accumulated since the run began or the last half-cycle was closed.
HalfCycleBegan == calls > 0 /\ last.capacity_before = 0

\* The cell with the concentrations the last cycle_step call began with (before
\* the first call: the concentrations run was called with).
CellBefore ==
    [cell_model EXCEPT !.c_ox_cls = last.before.c_ox_cls,
                       !.c_red_cls = last.before.c_red_cls,
                       !.c_ox_ncls = last.before.c_ox_ncls,
                       !.c_red_ncls = last.before.c_red_ncls]

\* The smaller limiting current for the concentrations and the direction the
\* last cycle_step call began with.
LimitBefore ==
    LET lim == limiting_concentration(CellBefore, last.charge)
    IN  Min(lim.i_lim_cls, lim.i_lim_ncls)

\* C14: when a half-cycle begins in constant-current mode with a current at or
\* above the smaller limiting current, its first cycle_step takes no step (no
\* coulomb count), raises nothing and returns LIMITING_CURRENT_REACHED.
C14_NoStepAtLimitingCurrent ==
    (HalfCycleBegan /\ last.kind = "CC" /\ Abs(last.current) >= LimitBefore)
    => /\ ~last.counted
       /\ last.err = "none"
       /\ last.status = LIMITING_CURRENT_REACHED

\* validate of the constant-current mode of a direction on the cell run was
\* called with; meaningful while calls <= 1.
StartValidate(charge) ==
    validate(get_cc_cycle_mode(protocol, CellBefore, charge, TRUE), CellBefore)

\* C15: in ConstantCurrent.run, with arguments _validate_protocol accepts and
\* validate calls that return: the first step is taken in the preferred
\* direction when its validate is NORMAL, in the opposite direction when only
\* that one's validate is NORMAL, and run raises ValueError, with no step
\* recorded and the concentrations unchanged, exactly when neither is NORMAL.
C15_StartTriesBothDirections ==
    (protocol.kind = "CC" /\ calls <= 1 /\ pc # "constructed"
     /\ validate_protocol(protocol, CellBefore, args).err = "none")
    => \E first \in {StartValidate(protocol.charge_first)},
          second \in {StartValidate(~protocol.charge_first)} :
          (first.err = "none" /\ (first.status = NORMAL \/ second.err = "none"))
          => /\ calls = 1
                => last.charge = IF first.status = NORMAL THEN protocol.charge_first
                                 ELSE ~protocol.charge_first
             /\ (first.status # NORMAL /\ second.status # NORMAL)
                <=> (calls = 0 /\ pc = "raised")
             /\ (calls = 0 /\ pc = "raised")
                => /\ err = "ValueError"
                   /\ results.step = 0
                   /\ Conc(cell_model) = last.before

\* C15 happens: the preferred direction did not validate and the first step of
\* the run was taken, and recorded, in the opposite direction.
C15_FirstStepInOppositeDirection ==
    /\ protocol.kind = "CC"
    /\ calls = 1
    /\ StartValidate(protocol.charge_first).status # NORMAL
    /\ last.charge = ~protocol.charge_first
    /\ last.recorded

\* C16: in every run consecutive entries of half_cycle_is_charge differ, the
\* mode that steps after a half-cycle was closed has the opposite direction of
\* that half-cycle, and so has the charge flag of a step it records.
C16_HalfCyclesAlternate ==
    /\ \A k \in 1..(Len(results.half_cycle_is_charge) - 1) :
          results.half_cycle_is_charge[k] # results.half_cycle_is_charge[k + 1]
    /\ (pc = "loop" /\ results.half_cycles > 0)
       => cycle_mode.charge = ~results.half_cycle_is_charge[results.half_cycles]
    /\ (calls > 0 /\ last.recorded /\ last.half_cycles_before > 0)
       => results.step_is_charge[last.step_before + 1]
            = ~results.half_cycle_is_charge[last.half_cycles_before]

\* C16 happens: three half-cycles have been closed and a step has been recorded
\* after the third.
C16_StepAfterThirdHalfCycle ==
    /\ calls > 0
    /\ last.recorded
    /\ last.half_cycles_before >= 3
    /\ Len(results.half_cycle_is_charge) >= 3

\* The statuses on which ConstantVoltage.run closes the half-cycle.
VoltageFlipStatuses == {CURRENT_CUTOFF_REACHED, NEGATIVE_CONCENTRATIONS}

\* C17: ConstantVoltage.run starts its first mode with current estimate zero,
\* and after a call that returned CURRENT_CUTOFF_REACHED or
\* NEGATIVE_CONCENTRATIONS one half-cycle has been closed and the next mode has
\* the opposite direction and, as its estimate, the magnitude of the current
\* the ended mode solved last.
C17_NextModeSeededWithMagnitude ==
    /\ (protocol.kind = "CV" /\ pc = "loop" /\ calls = 0)
       => cycle_mode.current = 0 /\ cycle_mode.charge = protocol.charge_first
    /\ (protocol.kind = "CV" /\ calls > 0 /\ last.err = "none"
        /\ last.status \in VoltageFlipStatuses)
       => /\ results.half_cycles = last.half_cycles_before + 1
          /\ cycle_mode.charge = ~last.charge
          /\ cycle_mode.current = Abs(last.current)

\* A constant-current step of a ConstantCurrentConstantVoltage run returned
\* VOLTAGE_LIMIT_REACHED.
VoltageLimitSwitch ==
    /\ protocol.kind = "CCCV"
    /\ calls > 0
    /\ last.kind = "CC"
    /\ last.err = "none"
    /\ last.status = VOLTAGE_LIMIT_REACHED

\* C18: when a CC step of a ConstantCurrentConstantVoltage run returns
\* VOLTAGE_LIMIT_REACHED the run goes on in a CV mode within the same
\* half-cycle: no half-cycle is recorded, the direction is unchanged, the
\* running capacity is not reset, and the CV mode's two limiting currents are
\* those of the CC mode it replaces.
C18_SwitchKeepsHalfCycleAndLimits ==
    VoltageLimitSwitch
    => /\ cycle_mode.kind = "CV"
       /\ cycle_status = NORMAL
       /\ results.half_cycles = last.half_cycles_before
       /\ cycle_mode.charge = last.charge
       /\ results.capacity = last.capacity_before + Abs(last.current) * TimeIncrement
       /\ cycle_mode.current_lim_cls = last.current_lim_cls
       /\ cycle_mode.current_lim_ncls = last.current_lim_ncls

\* The switch happened after the half-cycle had accumulated capacity, with
\* concentrations whose limiting current differs from the one carried over.
C18_SwitchedWithCapacity ==
    /\ VoltageLimitSwitch
    /\ last.capacity_before > 0
    /\ cycle_mode.kind = "CV"
    /\ cycle_mode.current_lim_cls = last.current_lim_cls
    /\ limiting_concentration(cell_model, cycle_mode.charge).i_lim_cls
           # cycle_mode.current_lim_cls

\* A step of a ConstantCurrentConstantVoltage run returned
\* NEGATIVE_CONCENTRATIONS.
NegativeConcentrationsFlip ==
    /\ protocol.kind = "CCCV"
    /\ calls > 0
    /\ last.err = "none"
    /\ last.status = NEGATIVE_CONCENTRATIONS

\* C19: when a step of a ConstantCurrentConstantVoltage run returns
\* NEGATIVE_CONCENTRATIONS the half-cycle is closed and the next half-cycle
\* starts in the kind of mode whose step failed: constant current after a CC
\* step, constant voltage after a CV step.
C19_NextHalfCycleInSameKindOfMode ==
    NegativeConcentrationsFlip
    => /\ results.half_cycles = last.half_cycles_before + 1
       /\ cycle_mode.charge = ~last.charge
       /\ cycle_mode.kind = last.kind

\* A constant-voltage step of a ConstantCurrentConstantVoltage run returned
\* CURRENT_CUTOFF_REACHED.
CurrentCutoffFlip ==
    /\ protocol.kind = "CCCV"
    /\ calls > 0
    /\ last.kind = "CV"
    /\ last.err = "none"
    /\ last.status = CURRENT_CUTOFF_REACHED

\* C20: when a CV step of a ConstantCurrentConstantVoltage run returns
\* CURRENT_CUTOFF_REACHED the half-cycle is closed, one entry being appended
\* to the half-cycle lists with the direction of the CV mode, and the next
\* half-cycle starts in a constant-current mode of the opposite direction.
C20_CutoffClosesHalfCycleIntoCC ==
    CurrentCutoffFlip
    => /\ results.half_cycles = last.half_cycles_before + 1
       /\ Len(results.half_cycle_capacity) = results.half_cycles
       /\ Len(results.half_cycle_time) = results.half_cycles
       /\ Len(results.half_cycle_is_charge) = results.half_cycles
       /\ results.half_cycle_is_charge[results.half_cycles] = last.charge
       /\ results.capacity = 0
       /\ cycle_mode.kind = "CC"
       /\ is_cc_mode
       /\ cycle_mode.charge = ~last.charge
       /\ cycle_mode.current = (IF cycle_mode.charge THEN protocol.current_charge
                                ELSE protocol.current_discharge)
       /\ cycle_status = NORMAL

\* A CV mode that had recorded steps in its half-cycle ended it at the cutoff.
C20_CutoffAfterRecordedSteps ==
    /\ CurrentCutoffFlip
    /\ last.capacity_before > 0
    /\ cycle_mode.kind = "CC"
    /\ cycle_mode.charge = ~last.charge
    /\ results.half_cycle_capacity[results.half_cycles] > 0

\* The constructor has been called.
Constructed == method_call.op = "ZeroDModel" /\ method_call.done

\* C21: constructing the cell model raises ValueError whenever a parameter
\* that must be positive (a volume, a rate constant, the area, the roughness
\* factor, the mass-transport coefficient, the time step, an electron number)
\* is <= 0, whenever a charge-transfer coefficient is not strictly between 0
\* and 1, and whenever resistance or init_ocv is < 0; otherwise, resistance
\* or init_ocv being 0 included, it succeeds.
C21_ConstructorRejectsBadParameters ==
    Constructed
    => LET p == method_call.input
           bad == \/ \E f \in PositiveParameters : p[f] <= 0
                  \/ \E f \in AlphaParameters : ~(0 < p[f] /\ p[f] < AlphaOne)
                  \/ \E f \in NonNegativeParameters : p[f] < 0
       IN  err = (IF bad THEN "ValueError" ELSE "none")

\* The duration run was called with: the durations taken here are the whole
\* multiples size * time_increment.
Duration == args.size * TimeIncrement

\* C22: a run whose duration does not exceed the time step is rejected before
\* any stepping: the stepping loop is never entered with a results buffer of
\* size 0 or with duration <= time_increment.
C22_ShortDurationRejected ==
    (pc = "loop" /\ protocol.kind # "none")
    => /\ results.size > 0
       /\ Duration > TimeIncrement

\* The lengths of the arrays of the recorder that are indexed by step number.
SeriesLengths(res) ==
    {Len(res.step_time), Len(res.step_is_charge), Len(res.current), Len(res.cell_v),
     Len(res.ocv), Len(res.c_ox_cls), Len(res.c_red_cls), Len(res.c_ox_ncls),
     Len(res.c_red_ncls)}

\* run returned before the step buffer was full.
ReturnedEarly ==
    /\ pc = "returned"
    /\ protocol.kind # "none"
    /\ results.step < results.size

\* C23: when a run ends early, with the step buffer not full, every
\* time-series array of the returned results holds exactly results.step
\* entries: no default-valued entries follow the last recorded step.
C23_ReturnedSeriesTruncated ==
    ReturnedEarly => SeriesLengths(results) = {results.step}

\* run was given a shared degradation mechanism together with a CLS or NCLS one.
DegradationConflict ==
    /\ args.degradation # "none"
    /\ (args.cls_degradation # "none" \/ args.ncls_degradation # "none")

\* The input run was called with is bad: conflicting mechanisms, or a model
\* that holds a negative concentration before any cycle_step call.
BadInput ==
    /\ protocol.kind # "none"
    /\ \/ DegradationConflict
       \/ (calls = 0 /\ negative_concentrations(cell_model))

\* C24: no partial simulation is started on bad input.  Once run has been
\* called on a model holding a negative concentration, or with both a shared
\* and a CLS/NCLS degradation mechanism, it has raised ValueError with no
\* cycle_step call made, no coulomb count applied, no recorder, step or
\* half-cycle, and the model's concentrations unchanged.
C24_NothingStartedOnBadInput ==
    (BadInput /\ pc # "constructed")
    => /\ pc = "raised"
       /\ err = "ValueError"
       /\ calls = 0
       /\ last = NoCall
       /\ results = NoResults
       /\ cycle_mode = NoCycleMode
       /\ Conc(cell_model) = last.before
       /\ last.snapshot_before = Conc(cell_model)
       /\ cell_model.delta_ox = 0 /\ cell_model.delta_red = 0

\* run was called on a model with a negative concentration, within its
\* voltage limits and with acceptable mechanisms, and raised.
C24_RaisedOnNegativeStart ==
    /\ BadInput
    /\ ~DegradationConflict
    /\ protocol.voltage_limit_discharge < cell_model.init_ocv
    /\ cell_model.init_ocv < protocol.voltage_limit_charge
    /\ ~(cell_model.init_ocv > 0 /\ protocol.voltage_limit_discharge < 0)
    /\ pc = "raised"
    /\ err = "ValueError"

\* The last cycle_step call found a negative concentration and reverted.
RevertedStep ==
    /\ calls > 0
    /\ last.err = "none"
    /\ last.reached = NEGATIVE_CONCENTRATIONS

\* C25: a reverted step leaves the recorder untouched.  When cycle_step of
\* either mode returns NEGATIVE_CONCENTRATIONS, or LOW_CAPACITY in its place,
\* the recorder it returns with is the recorder it was entered with: step,
\* capacity, time series and half-cycle lists.  (The run loop then closes the
\* half-cycle on NEGATIVE_CONCENTRATIONS, with the capacity kept until then.)
C25_RevertedStepKeepsRecorder ==
    RevertedStep
    => /\ last.results_unchanged
       /\ ~last.recorded
       /\ last.status \in {NEGATIVE_CONCENTRATIONS, LOW_CAPACITY}
       /\ results.step = last.step_before
       /\ last.status = LOW_CAPACITY
          => /\ results.capacity = last.capacity_before
             /\ results.half_cycles = last.half_cycles_before
       /\ last.status = NEGATIVE_CONCENTRATIONS
          => /\ results.half_cycles = last.half_cycles_before + 1
             /\ results.half_cycle_capacity[results.half_cycles] = last.capacity_before

\* A step was reverted in a half-cycle that had recorded steps before it.
C25_RevertedAfterRecordedSteps ==
    /\ RevertedStep
    /\ last.step_before > 0
    /\ last.capacity_before > 0
    /\ last.results_unchanged

\* The last call, by a constant-voltage mode, solved a current at or below the
\* cutoff.
CutoffCall ==
    /\ calls > 0
    /\ last.kind = "CV"
    /\ last.err = "none"
    /\ last.reached = CURRENT_CUTOFF_REACHED

\* C26: when ConstantVoltageCycleMode.cycle_step finds the solved current at or
\* below the cutoff it returns CURRENT_CUTOFF_REACHED (or LOW_CAPACITY) with
\* no count applied, no step recorded, and the model's four concentrations
\* equal to their values at entry to the call.
C26_CutoffKeepsConcentrations ==
    CutoffCall
    => /\ last.status \in {CURRENT_CUTOFF_REACHED, LOW_CAPACITY}
       /\ ~last.counted
       /\ ~last.recorded
       /\ last.results_unchanged
       /\ Conc(cell_model) = last.before

\* The last call was made by a constant-current mode and was not reverted:
\* it returned without an exception and without finding a negative
\* concentration.
UnrevertedCurrentStep ==
    /\ calls > 0
    /\ last.kind = "CC"
    /\ last.err = "none"
    /\ last.reached # NEGATIVE_CONCENTRATIONS

\* C27: a constant-current step that is not reverted is recorded exactly once.
\* When ConstantCurrentCycleMode.cycle_step returns NORMAL,
\* VOLTAGE_LIMIT_REACHED, TIME_DURATION_REACHED or LOW_CAPACITY raised at the
\* voltage limit, results.step has grown by 1 and the capacity of the
\* half-cycle by |current| * time_increment: the step that crosses the voltage
\* limit is counted in the half-cycle it ends.
C27_UnrevertedStepRecordedOnce ==
    UnrevertedCurrentStep
    => /\ last.recorded
       /\ last.status \in {NORMAL, VOLTAGE_LIMIT_REACHED, TIME_DURATION_REACHED, LOW_CAPACITY}
       /\ results.step = last.step_before + 1
       /\ results.current[results.step] = last.current
       /\ IF results.half_cycles = last.half_cycles_before
          THEN results.capacity = last.capacity_before + Abs(last.current) * TimeIncrement
          ELSE /\ results.half_cycles = last.half_cycles_before + 1
               /\ results.capacity = 0
               /\ results.half_cycle_capacity[results.half_cycles]
                      = last.capacity_before + Abs(last.current) * TimeIncrement

\* A constant-current step crossed the voltage limit after earlier steps of
\* its half-cycle, and the half-cycle was closed with that step counted.
C27_LimitStepCountedInHalfCycle ==
    /\ UnrevertedCurrentStep
    /\ last.reached = VOLTAGE_LIMIT_REACHED
    /\ last.capacity_before > 0
    /\ results.half_cycles = last.half_cycles_before + 1
    /\ results.half_cycle_capacity[results.half_cycles] > last.capacity_before

\* coulomb_counter was called with a non-zero current and no mechanism: only
\* the Faradaic transfer acted.
FaradaicCall ==
    /\ method_call.op = "coulomb_counter"
    /\ method_call.done
    /\ method_call.input.mechanisms
         = [cls_degradation |-> "none", ncls_degradation |-> "none", crossover |-> "none"]
    /\ method_call.input.current # 0

\* The cell coulomb_counter was called on.
CounterCellBefore ==
    [cell_model EXCEPT !.c_ox_cls = method_call.val.before.c_ox_cls,
                       !.c_red_cls = method_call.val.before.c_red_cls,
                       !.c_ox_ncls = method_call.val.before.c_ox_ncls,
                       !.c_red_ncls = method_call.val.before.c_red_ncls]

\* The species whose concentration the call decreased.
Decreased ==
    {s \in DOMAIN Conc(cell_model) : Conc(cell_model)[s] < method_call.val.before[s]}

\* C28: for each combination of cls_negolyte and direction, the two species
\* whose concentrations limiting_concentration uses are exactly the two
\* species the Faradaic transfer of coulomb_counter decreases for a current of
\* that direction's sign (positive for charge, negative for discharge).
C28_LimitingSpeciesAreDepleted ==
    FaradaicCall
    => \E a \in {"c_ox_cls", "c_red_cls"}, b \in {"c_ox_ncls", "c_red_ncls"} :
          /\ Decreased = {a, b}
          /\ limiting_concentration(CounterCellBefore, method_call.input.current > 0)
                = [i_lim_cls  |-> limiting_current(method_call.val.before[a]),
                   i_lim_ncls |-> limiting_current(method_call.val.before[b])]

\* A charging count on a cell whose CLS is the posolyte, with concentrations
\* that tell the species of each side apart.
C28_ChargingPosolyteCount ==
    /\ FaradaicCall
    /\ method_call.input.current > 0
    /\ ~cell_model.cls_negolyte
    /\ method_call.val.before.c_ox_cls # method_call.val.before.c_red_cls
    /\ method_call.val.before.c_ox_ncls # method_call.val.before.c_red_ncls
    /\ Decreased = {"c_red_cls", "c_ox_ncls"}

\* coulomb_counter has been called.
CounterCalled == method_call.op = "coulomb_counter" /\ method_call.done

\* The concentrations after the Faradaic transfer alone, for the call made.
AfterFaradaic == faradaic(CounterCellBefore, method_call.input.current)

\* The CLS and the NCLS concentrations after their degradation mechanism acted
\* on what the Faradaic transfer produced.
AfterClsDegradation ==
    degrade(method_call.input.mechanisms.cls_degradation,
            AfterFaradaic.c_ox_cls, AfterFaradaic.c_red_cls)

AfterNclsDegradation ==
    degrade(method_call.input.mechanisms.ncls_degradation,
            AfterFaradaic.c_ox_ncls, AfterFaradaic.c_red_ncls)

\* C29: within one coulomb_counter call the Faradaic transfer acts first, then
\* the CLS degradation, then the NCLS degradation, then the crossover, each on
\* the concentrations the stage before it produced; the model's concentrations
\* are those the last stage produced and the deltas returned are the
\* crossover's (0, 0 without crossover).
C29_StagesAppliedInOrder ==
    CounterCalled
    => IF method_call.input.mechanisms.crossover = "none"
       THEN /\ Conc(cell_model)
                 = [c_ox_cls |-> AfterClsDegradation.c_ox,
                    c_red_cls |-> AfterClsDegradation.c_red,
                    c_ox_ncls |-> AfterNclsDegradation.c_ox,
                    c_red_ncls |-> AfterNclsDegradation.c_red]
            /\ method_call.val.returned = <<0, 0>>
       ELSE \E x \in {crossover(AfterClsDegradation.c_ox, AfterClsDegradation.c_red,
                                AfterNclsDegradation.c_ox, AfterNclsDegradation.c_red)} :
               /\ Conc(cell_model) = Conc(x)
               /\ method_call.val.returned = <<x.delta_ox, x.delta_red>>

\* A count with a current, both degradation mechanisms and crossover, in which
\* every stage changed something.
C29_AllStagesActed ==
    /\ CounterCalled
    /\ method_call.input.current # 0
    /\ method_call.input.mechanisms
         = [cls_degradation |-> "red", ncls_degradation |-> "red", crossover |-> "cross"]
    /\ AfterFaradaic # method_call.val.before
    /\ AfterClsDegradation.c_red # AfterFaradaic.c_red_cls
    /\ AfterNclsDegradation.c_red # AfterFaradaic.c_red_ncls
    /\ method_call.val.returned # <<0, 0>>

\* The last call was made by a constant-voltage mode and recorded a step.
VoltageStepRecorded ==
    /\ calls > 0
    /\ last.kind = "CV"
    /\ last.err = "none"
    /\ last.recorded

\* C30: every step recorded by a constant-voltage mode stores as cell voltage
\* the voltage limit of the mode's direction, voltage_limit_charge when
\* charging and voltage_limit_discharge when discharging, in ConstantVoltage
\* runs and in the constant-voltage phases of
\* ConstantCurrentConstantVoltage runs.
C30_VoltageStepStoresLimit ==
    VoltageStepRecorded
    => /\ protocol.kind \in {"CV", "CCCV"}
       /\ results.step = last.step_before + 1
       /\ results.step_is_charge[results.step] = last.charge
       /\ results.cell_v[results.step] = LastLimit

\* A discharging constant-voltage phase of a ConstantCurrentConstantVoltage
\* run recorded a step after the constant-current phase of the half-cycle.
C30_DischargePhaseRecorded ==
    /\ VoltageStepRecorded
    /\ protocol.kind = "CCCV"
    /\ ~last.charge
    /\ last.step_before > 0
    /\ results.cell_v[results.step] = protocol.voltage_limit_discharge

\* ------------------------------------------------------------------- C31
\* The last call was a constant-current step that returned with the cell
\* voltage at or beyond the mode's voltage limit.
CurrentStepAtLimit ==
    /\ calls > 0
    /\ last.kind = "CC"
    /\ last.err = "none"
    /\ last.reached = VOLTAGE_LIMIT_REACHED

\* The capacity test of check_capacity on the recorder as the call found it.
LowCapacityBefore ==
    last.capacity_before < OneCoulomb /\ last.half_cycles_before > HalfCycleFloor

\* C31: in a ConstantCurrentConstantVoltage run a constant-current step that
\* reaches the voltage limit returns VOLTAGE_LIMIT_REACHED, never LOW_CAPACITY,
\* whatever the running capacity and the number of completed half-cycles, and
\* the run goes on in a constant-voltage mode of the same direction; in a
\* ConstantCurrent run the same step returns LOW_CAPACITY exactly when the
\* running capacity is below one coulomb after more than two half-cycles.
C31_LimitCheckedOnlyInCurrentRuns ==
    CurrentStepAtLimit
    => IF protocol.kind = "CCCV"
       THEN /\ last.status = VOLTAGE_LIMIT_REACHED
            /\ cycle_status = NORMAL
            /\ cycle_mode.kind = "CV"
            /\ cycle_mode.charge = last.charge
       ELSE /\ protocol.kind = "CC"
            /\ last.status = IF LowCapacityBefore THEN LOW_CAPACITY
                             ELSE VOLTAGE_LIMIT_REACHED

\* A ConstantCurrentConstantVoltage run whose constant-current step reached the
\* limit with less than one coulomb after more than two half-cycles.
C31_HandOffAtLowCapacity ==
    /\ CurrentStepAtLimit
    /\ protocol.kind = "CCCV"
    /\ LowCapacityBefore
    /\ cycle_mode.kind = "CV"

\* ------------------------------------------------------------------- C32
\* The lists of a recorder agree in length with its half-cycle counter, and the
\* half-cycle times do not decrease.
ListsConsistent(res) ==
    /\ res.half_cycles = Len(res.half_cycle_capacity)
    /\ res.half_cycles = Len(res.half_cycle_time)
    /\ res.half_cycles = Len(res.half_cycle_is_charge)
    /\ res.half_cycles = Len(res.charge_cycle_capacity) + Len(res.discharge_cycle_capacity)
    /\ Len(res.charge_cycle_time) = Len(res.charge_cycle_capacity)
    /\ Len(res.discharge_cycle_time) = Len(res.discharge_cycle_capacity)
    /\ \A i \in 1..(Len(res.half_cycle_time) - 1) :
          res.half_cycle_time[i] <= res.half_cycle_time[i + 1]

\* C32: after any sequence of record_step and record_half_cycle calls,
\* half_cycles is the length of half_cycle_capacity, of half_cycle_time and of
\* half_cycle_is_charge, and the sum of the lengths of the charge and the
\* discharge capacity lists; the charge and discharge time lists are as long
\* as their capacity lists; half_cycle_time is non-decreasing.
C32_RecorderListsConsistent == ListsConsistent(results)

\* Steps and half-cycles of both directions have been recorded, an empty
\* half-cycle among them.
C32_BothDirectionsRecorded ==
    /\ pc = "recorder"
    /\ results.step > 1
    /\ Len(results.charge_cycle_capacity) > 0
    /\ Len(results.discharge_cycle_capacity) > 1
    /\ \E i \in 1..(results.half_cycles - 1) :
          results.half_cycle_time[i] = results.half_cycle_time[i + 1]

\* ------------------------------------------------------------------- C33
RECURSIVE StepCharge(_, _, _)
\* The sum of |current| * time_increment over the recorded steps from + 1 .. to.
StepCharge(res, from, to) ==
    IF to <= from THEN 0
    ELSE StepCharge(res, from, to - 1) + Abs(res.current[to]) * TimeIncrement

RECURSIVE SumTo(_, _)
\* The sum of the first n entries of a list.
SumTo(list, n) == IF n = 0 THEN 0 ELSE SumTo(list, n - 1) + list[n]

\* The number of steps recorded when the i-th half-cycle was closed; 0 is the
\* start.
BoundaryStep(res, i) == IF i = 0 THEN 0 ELSE res.half_cycle_time[i] \div TimeIncrement

\* The capacities a recorder holds are those of the steps it holds.
CapacityBooked(res) ==
    /\ \A i \in 1..Len(res.half_cycle_capacity) :
          res.half_cycle_capacity[i]
              = StepCharge(res, BoundaryStep(res, i - 1), BoundaryStep(res, i))
    /\ SumTo(res.half_cycle_capacity, Len(res.half_cycle_capacity)) + res.capacity
          = StepCharge(res, 0, res.step)

\* C33: each entry of half_cycle_capacity is the sum of |current| *
\* time_increment over the steps recorded since the previous half-cycle
\* boundary (or the start), the running capacity is 0 right after a boundary,
\* and at any time the half-cycle capacities plus the running capacity sum to
\* |current| * time_increment over all recorded steps.
C33_CapacityBookkeeping ==
    /\ CapacityBooked(results)
    /\ (method_call.op = "record_half_cycle" => results.capacity = 0)

\* ------------------------------------------------------------------- C34
\* The steps recorded in the i-th half-cycle of a recorder.
HalfCycleSteps(res, i) == (BoundaryStep(res, i - 1) + 1)..BoundaryStep(res, i)

\* The steps recorded since the last half-cycle boundary.
OpenSteps(res) == (BoundaryStep(res, Len(res.half_cycle_time)) + 1)..res.step

\* C34: in every run the steps recorded between two consecutive half-cycle
\* boundaries carry one step_is_charge flag, that of the half_cycle_is_charge
\* entry which closes them, and the steps of the half-cycle still open carry
\* one flag too; a half-cycle of a constant-current phase followed by a
\* constant-voltage phase is no exception.
C34_HalfCycleStepsShareDirection ==
    /\ \A i \in 1..Len(results.half_cycle_time) :
          \A k \in HalfCycleSteps(results, i) :
             results.step_is_charge[k] = results.half_cycle_is_charge[i]
    /\ \A k \in OpenSteps(results), l \in OpenSteps(results) :
          results.step_is_charge[k] = results.step_is_charge[l]

\* A ConstantCurrentConstantVoltage run has just closed, at the current cutoff,
\* a half-cycle that began with a constant-current step inside the voltage
\* limit and ended with a step recorded by the constant-voltage mode.
C34_TwoPhaseHalfCycleClosed ==
    /\ protocol.kind = "CCCV"
    /\ calls > 0
    /\ last.kind = "CV"
    /\ last.err = "none"
    /\ last.status = CURRENT_CUTOFF_REACHED
    /\ results.half_cycles > 1
    /\ \E first \in HalfCycleSteps(results, results.half_cycles) :
          /\ first < results.step
          /\ Abs(results.cell_v[first]) < Abs(LastLimit)
          /\ results.cell_v[results.step] = LastLimit
          /\ results.current[results.step] # results.current[first]

\* ------------------------------------------------------------------- C35
\* The four concentrations stored in the k-th recorded step.
RecordedConc(res, k) ==
    [c_ox_cls |-> res.c_ox_cls[k], c_red_cls |-> res.c_red_cls[k],
     c_ox_ncls |-> res.c_ox_ncls[k], c_red_ncls |-> res.c_red_ncls[k]]

\* The run is between two cycle_step calls, or has made its last one.
BetweenCalls == pc \in {"loop", "returned"}

\* C35: between two cycle_step calls of a run, once a step has been recorded,
\* the cell's four concentrations are those stored in the most recently
\* recorded step: a revert never takes the cell back past a recorded step.
C35_CellAgreesWithLastRecordedStep ==
    (BetweenCalls /\ results.step > 0)
    => Conc(cell_model) = RecordedConc(results, results.step)

\* ------------------------------------------------------------------- C36
\* The last call was a constant-current step that was recorded.
CurrentStepRecorded ==
    /\ calls > 0
    /\ last.kind = "CC"
    /\ last.err = "none"
    /\ last.recorded

\* The current and the direction stored in the k-th recorded step agree in
\* sign.
SignMatchesDirection(res, k) ==
    IF res.step_is_charge[k] THEN res.current[k] > 0 ELSE res.current[k] < 0

\* C36: every step recorded by a constant-current mode holds a current that is
\* strictly positive when the step is a charge step and strictly negative when
\* it is a discharge step: the step just recorded in any run, and every step of
\* a ConstantCurrent run.
C36_CurrentSignMatchesDirection ==
    /\ CurrentStepRecorded
       => /\ results.step = last.step_before + 1
          /\ results.step_is_charge[results.step] = last.charge
          /\ SignMatchesDirection(results, results.step)
    /\ protocol.kind = "CC"
       => \A k \in 1..results.step : SignMatchesDirection(results, k)

\* A ConstantCurrentConstantVoltage run recorded a constant-current discharge
\* step after a charge half-cycle.
C36_DischargeStepAfterCharge ==
    /\ CurrentStepRecorded
    /\ protocol.kind = "CCCV"
    /\ ~last.charge
    /\ results.half_cycles > 0
    /\ results.current[results.step] < 0
    /\ \E k \in 1..(results.step - 1) : results.current[k] > 0

\* ------------------------------------------------------------------- C37
\* The next cycle_step call is made on a constant-voltage mode and reaches
\* _find_min_current: the estimate is not at or beyond the smaller limiting
\* current and the open-circuit voltage is defined.
SolverCalled ==
    /\ pc = "loop"
    /\ cycle_status = NORMAL
    /\ cycle_mode.kind = "CV"
    /\ ~(/\ cycle_mode.current # 0
         /\ Abs(cycle_mode.current) >= Min(cycle_mode.current_lim_cls,
                                           cycle_mode.current_lim_ncls))
    /\ open_circuit_voltage(cell_model).err = "none"

\* C37: the current a constant-voltage mode hands to the solver as initial
\* guess has the sign of the mode's direction (positive for charge, negative
\* for discharge) and a magnitude strictly below the smaller limiting current,
\* whether it is seeded from the limiting currents or carried over from the
\* previous mode.
C37_GuessSignedAndBelowLimit ==
    SolverCalled
    => /\ Sign(Guess(cycle_mode)) = (IF cycle_mode.charge THEN 1 ELSE -1)
       /\ Abs(Guess(cycle_mode)) < Min(cycle_mode.current_lim_cls,
                                       cycle_mode.current_lim_ncls)

\* ------------------------------------------------------------------- C38
\* C38: every half-cycle a run records holds at least one recorded step: no
\* entry of half_cycle_capacity is 0 and no two consecutive entries of
\* half_cycle_time are equal, also when the first step of a half-cycle is
\* reverted for negative concentrations or a constant-voltage mode reaches its
\* current cutoff on its first step.
C38_NoEmptyHalfCycle ==
    /\ \A i \in 1..Len(results.half_cycle_capacity) : results.half_cycle_capacity[i] # 0
    /\ \A i \in 1..(Len(results.half_cycle_time) - 1) :
          results.half_cycle_time[i] # results.half_cycle_time[i + 1]

====
